---- MODULE Spec2Model ----
(***************************************************************************)
(* dwtr: style resolution (document.rs, document_analyzer.rs), path        *)
(* interning, glyph-run rendering and the geometry sink                    *)
(* (svg_text_render.rs), escaping (escape.rs) and the pipeline (main.rs).  *)
(*                                                                         *)
(* The specifications of the module:                                       *)
(*   SpecMerge     TextStyle::merge as a pure function over bounded inputs *)
(*   SpecAnalyzer  DocumentAnalyzer: analyze / create_text_layout          *)
(*   SpecStore     SharedStore: add_path_def / into_xml                    *)
(*   SpecSink      SvgGeometrySink driven through its callback interface   *)
(*   SpecRender    SvgDocumentRenderer: frame renderers and DrawGlyphRun   *)
(*   SpecOffset    DocumentAnalyzer::compute_layout_offset                 *)
(*   SpecEscape    escape_str as used by SvgFrame::as_element              *)
(*   SpecMain      main: the pipeline from input file to output stream     *)
(***************************************************************************)
EXTENDS Integers, Sequences, FiniteSets, TLC

VARIABLES
    \* ---- TextStyle::merge harness
    m_self,          \* receiver before the call (&mut self)
    m_other,         \* argument (other: &TextStyle)
    m_result,        \* receiver after the call
    m_pc,            \* "input" | "merged" ("idle" when the harness is not in use)
    \* ---- DocumentAnalyzer
    text,            \* Vec<u16>
    style_runs,      \* Vec<StyleRun>
    style_stack,     \* Vec<TextStyle>
    call_stack,      \* open analyze(Embed) activations, each holding last_style
    trace,           \* the content analysed so far, flattened: one entry per node visit
    layout,          \* attribute ranges applied by create_text_layout
    phase,           \* "analyzing" | "laid_out" | "layout_failed"
    \* ---- SharedStore
    last_path_id,    \* usize
    path_defs,       \* IndexMap<String, usize> as its insertion-ordered entry list
    hist,            \* add_path_def calls so far: argument, result, store sizes after
    xml_defs,        \* <defs> children emitted by into_xml
    \* ---- SvgGeometrySink
    sinks,           \* the sinks under test, one per scalar, fed the same calls
    sink_log,        \* the calls made on the sinks so far, reset() with its results
    figure_open,     \* a BeginFigure has not been closed by EndFigure yet
    \* ---- SvgDocumentRenderer / SvgFrameRenderer
    frames,          \* Vec<Rc<RefCell<SvgFrame>>>
    renderer,        \* Option<SvgFrameRenderer>: the frame renderer in use
    draws,           \* the DrawGlyphRun calls so far, each with its per-glyph steps
    render_phase,    \* "drawing" | "failed" | "assembled" ("idle" when not in use)
    svg,             \* Option<Document>: what into_xml returned
    \* ---- compute_layout_offset harness
    o_args,          \* canvas size, frame and metrics passed in
    o_result,        \* Option<(f32, f32)>: the offset returned
    \* ---- escape_str / as_element harness
    e_frame,         \* the SvgFrame to serialise
    e_element,       \* Option: the element tree as_element returned
    \* ---- main
    pc,              \* position in main
    opt_output,      \* Option<PathBuf>: opt.output
    n_frames,        \* document.frames.len()
    frame_i,         \* frames processed by the loop so far
    out_bytes,       \* what the output destination has received, in write order
    exit_status      \* "running" | "ok" | "err" | "panic"

merge_vars    == <<m_self, m_other, m_result, m_pc>>
analyzer_vars == <<text, style_runs, style_stack, call_stack, trace, layout, phase>>
store_vars    == <<last_path_id, path_defs, hist, xml_defs>>
sink_vars     == <<sinks, sink_log, figure_open>>
render_vars   == <<frames, renderer, draws, render_phase, svg>>
offset_vars   == <<o_args, o_result>>
escape_vars   == <<e_frame, e_element>>
main_vars     == <<pc, opt_output, n_frames, frame_i, out_bytes, exit_status>>
vars          == <<m_self, m_other, m_result, m_pc,
                   text, style_runs, style_stack, call_stack, trace, layout, phase,
                   last_path_id, path_defs, hist, xml_defs,
                   sinks, sink_log, figure_open,
                   frames, renderer, draws, render_phase, svg,
                   o_args, o_result, e_frame, e_element,
                   pc, opt_output, n_frames, frame_i, out_bytes, exit_status>>

(***************************************************************************)
(* Bounds                                                                  *)
(***************************************************************************)
MaxSetFields == 2    \* fields set in a generated merge input
MaxNodes     == 5    \* content nodes analysed by one analyzer
MaxDepth     == 2    \* nesting of open Embed nodes
MaxCalls     == 5    \* add_path_def calls on one store

(***************************************************************************)
(* Option<T>: None is <<>>, Some(v) is <<v>>                               *)
(***************************************************************************)
None == <<>>

Some(v) == <<v>>

is_some(o) == Len(o) = 1

\* Option::or: self if it is Some, else the argument
or(self, optb) == IF is_some(self) THEN self ELSE optb

(***************************************************************************)
(* BTreeMap<String, V> as a function on its key set                        *)
(***************************************************************************)
EmptyMap == [k \in {} |-> 0]

insert(m, k, v) == [x \in (DOMAIN m) \cup {k} |-> IF x = k THEN v ELSE m[x]]

RECURSIVE extend_keys(_, _, _)
extend_keys(m, o, K) ==
    IF K = {} THEN m
    ELSE LET k == CHOOSE x \in K : TRUE
         IN  extend_keys(insert(m, k, o[k]), o, K \ {k})

\* Extend::extend: insert every entry of the argument, replacing same-keyed ones
extend(m, o) == extend_keys(m, o, DOMAIN o)

(***************************************************************************)
(* TextStyle                                                               *)
(***************************************************************************)
ScalarFields == {"font_family", "font_weight", "font_width", "font_style",
                 "font_size", "color", "lang"}

MapFields == {"font_feature_settings", "font_variation_settings"}

StyleFields == ScalarFields \cup MapFields

\* #[derive(Default)]
DefaultStyle ==
    [font_family |-> None, font_weight |-> None, font_width |-> None,
     font_style |-> None, font_size |-> None, color |-> None, lang |-> None,
     font_feature_settings |-> EmptyMap, font_variation_settings |-> EmptyMap]

\* FontVariationValue
VarDefault == <<"Default">>

VarSet(x) == <<"Set", x>>


\* A merge that keeps the receiver's scalar when both sides set it
merge_receiver_wins(self, other) ==
    [font_family |-> or(self.font_family, other.font_family),
     font_weight |-> or(self.font_weight, other.font_weight),
     font_width  |-> or(self.font_width, other.font_width),
     font_style  |-> or(self.font_style, other.font_style),
     font_size   |-> or(self.font_size, other.font_size),
     color       |-> or(self.color, other.color),
     lang        |-> or(self.lang, other.lang),
     font_feature_settings   |-> extend(other.font_feature_settings,
                                        self.font_feature_settings),
     font_variation_settings |-> extend(other.font_variation_settings,
                                        self.font_variation_settings)]

\* A merge that replaces each map by the argument's map instead of extending it
merge_replace_maps(self, other) ==
    [font_family |-> or(other.font_family, self.font_family),
     font_weight |-> or(other.font_weight, self.font_weight),
     font_width  |-> or(other.font_width, self.font_width),
     font_style  |-> or(other.font_style, self.font_style),
     font_size   |-> or(other.font_size, self.font_size),
     color       |-> or(other.color, self.color),
     lang        |-> or(other.lang, self.lang),
     font_feature_settings   |-> other.font_feature_settings,
     font_variation_settings |-> other.font_variation_settings]

\* TextStyle::merge(&mut self, other): the receiver after the call
merge(self, other) ==
    [font_family |-> or(other.font_family, self.font_family),
     font_weight |-> or(other.font_weight, self.font_weight),
     font_width  |-> or(other.font_width, self.font_width),
     font_style  |-> or(other.font_style, self.font_style),
     font_size   |-> or(other.font_size, self.font_size),
     color       |-> or(other.color, self.color),
     lang        |-> or(other.lang, self.lang),
     font_feature_settings   |-> extend(self.font_feature_settings,
                                        other.font_feature_settings),
     font_variation_settings |-> extend(self.font_variation_settings,
                                        other.font_variation_settings)]

(***************************************************************************)
(* Inputs of the merge harness: two value tables (variant 1 and 2) per     *)
(* field; a generated style sets at most MaxSetFields fields, all from one *)
(* variant, or sets every field.                                           *)
(***************************************************************************)
Variants == {1, 2}

FieldValue(f, v) ==
    CASE f = "font_family" -> IF v = 1 THEN Some("Calibri") ELSE Some("Noto Sans")
      [] f = "font_weight" -> IF v = 1 THEN Some(400) ELSE Some(700)
      [] f = "font_width"  -> IF v = 1 THEN Some(5) ELSE Some(3)
      [] f = "font_style"  -> IF v = 1 THEN Some("Normal") ELSE Some("Italic")
      [] f = "font_size"   -> IF v = 1 THEN Some(24) ELSE Some(36)
      [] f = "color"       -> IF v = 1 THEN Some("red") ELSE Some("#00f")
      [] f = "lang"        -> IF v = 1 THEN Some("en-us") ELSE Some("ja")
      [] f = "font_feature_settings" ->
            IF v = 1 THEN [k \in {"a", "b"} |-> IF k = "a" THEN 0 ELSE 2]
                     ELSE [k \in {"a"} |-> 1]
      [] f = "font_variation_settings" ->
            IF v = 1 THEN [k \in {"wght", "wdth"} |->
                               IF k = "wght" THEN VarSet(700) ELSE VarDefault]
                     ELSE [k \in {"wght"} |-> VarSet(400)]

StyleOf(F, v) ==
    [f \in StyleFields |-> IF f \in F THEN FieldValue(f, v) ELSE DefaultStyle[f]]

MergeInputs ==
    {StyleOf(F, v) : F \in {G \in SUBSET StyleFields : Cardinality(G) <= MaxSetFields},
                     v \in Variants}
    \cup {StyleOf(StyleFields, v) : v \in Variants}

\* two styles to merge; the analyzer and the store are not in use
MergeInit ==
    /\ m_self \in MergeInputs
    /\ m_other \in MergeInputs
    /\ m_result = m_self
    /\ m_pc = "input"
    /\ text = <<>> /\ style_runs = <<>> /\ style_stack = <<>>
    /\ call_stack = <<>> /\ trace = <<>> /\ layout = <<>> /\ phase = "idle"
    /\ last_path_id = 0 /\ path_defs = <<>> /\ hist = <<>> /\ xml_defs = <<>>
    /\ sinks = <<>> /\ sink_log = <<>> /\ figure_open = FALSE
    /\ frames = <<>> /\ renderer = <<>> /\ draws = <<>> /\ render_phase = "idle"
    /\ svg = <<>>
    /\ o_args = <<>> /\ o_result = <<>> /\ e_frame = <<>> /\ e_element = <<>>
    /\ pc = "idle" /\ opt_output = <<>> /\ n_frames = 0 /\ frame_i = 0
    /\ out_bytes = <<>> /\ exit_status = "idle"

\* self.merge(&other)
MergeCall ==
    /\ m_pc = "input"
    /\ m_result' = merge(m_self, m_other)
    /\ m_pc' = "merged"
    /\ UNCHANGED <<m_self, m_other>>
    /\ UNCHANGED <<analyzer_vars, store_vars,
                 sink_vars, render_vars, offset_vars, escape_vars, main_vars>>

MergeNext == MergeCall

SpecMerge == MergeInit /\ [][MergeNext]_vars

(***************************************************************************)
(* Claims about TextStyle::merge (checked under SpecMerge)                 *)
(***************************************************************************)

\* C4: after self.merge(other), every scalar field holds other's value when
\* other sets it and the receiver's previous value otherwise, and each map
\* field is the right-biased union of the two maps: every key of either map
\* is present, with other's value for a key of other and the receiver's
\* value for the rest; merging {a:1} into {a:0,b:2} gives {a:1,b:2}.
C4_MergeFieldwise ==
    m_pc = "merged" =>
        /\ \A f \in ScalarFields :
              m_result[f] = IF m_other[f] # None THEN m_other[f] ELSE m_self[f]
        /\ \A f \in MapFields :
              /\ DOMAIN m_result[f] = (DOMAIN m_self[f]) \cup (DOMAIN m_other[f])
              /\ \A k \in DOMAIN m_result[f] :
                    m_result[f][k] = IF k \in DOMAIN m_other[f]
                                     THEN m_other[f][k] ELSE m_self[f][k]
        /\ ( /\ m_self.font_feature_settings = FieldValue("font_feature_settings", 1)
             /\ m_other.font_feature_settings = FieldValue("font_feature_settings", 2) )
           => m_result.font_feature_settings =
                  [k \in {"a", "b"} |-> IF k = "a" THEN 1 ELSE 2]

\* C4 witness: a merge where both sides set font_weight to different values
\* and the feature maps are {a:0,b:2} and {a:1}.
C4_Witness ==
    /\ m_pc = "merged"
    /\ m_self.font_weight = Some(400) /\ m_other.font_weight = Some(700)
    /\ m_self.font_feature_settings = FieldValue("font_feature_settings", 1)
    /\ m_other.font_feature_settings = FieldValue("font_feature_settings", 2)
    /\ m_result.font_weight = Some(700)
    /\ DOMAIN m_result.font_feature_settings = {"a", "b"}

\* C5: the style with every field unset and both maps empty is a left and a
\* right identity of merge: merge(default, s) = s and merge(s, default) = s.
C5_MergeIdentity ==
    m_pc = "merged" =>
        /\ (m_self = DefaultStyle => m_result = m_other)
        /\ (m_other = DefaultStyle => m_result = m_self)

\* C5 witness: the default style merged into a style that sets every field.
C5_Witness ==
    /\ m_pc = "merged"
    /\ m_other = DefaultStyle
    /\ m_self = StyleOf(StyleFields, 1)
    /\ m_result = m_self


(***************************************************************************)
(* DocumentAnalyzer                                                        *)
(*                                                                         *)
(* analyze is recursive on Embed. Its activations are kept in call_stack:  *)
(* AnalyzeEmbedEnter is the part of the Embed arm before the loop over the *)
(* children, AnalyzeEmbedExit the part after it, and the steps taken while *)
(* an activation is open are the recursive calls of that loop. A call made *)
(* with call_stack empty is a call by the owner of the analyzer.           *)
(***************************************************************************)

\* An encoding that narrows every code point to one unit (c as u16)
encode_utf16_char_narrow(c) == <<c % 65536>>

\* char::encode_utf16: one unit in the BMP, a surrogate pair above it
encode_utf16_char(c) ==
    IF c < 65536 THEN <<c>>
    ELSE <<55296 + ((c - 65536) \div 1024), 56320 + ((c - 65536) % 1024)>>

RECURSIVE encode_utf16(_)
\* str::encode_utf16().collect()
encode_utf16(tx) ==
    IF tx = <<>> THEN <<>>
    ELSE encode_utf16_char(Head(tx)) \o encode_utf16(Tail(tx))

\* Text nodes of the analysed documents, as sequences of code points:
\* "Z" and U+1F600 (two UTF-16 code units)
Texts == {<<90>>, <<128512>>}

\* Style nodes of the analysed documents
StyleX == StyleOf({"color", "font_weight", "font_feature_settings"}, 1)

StyleY == StyleOf({"color", "font_size", "font_feature_settings"}, 2)

DocStyles == {StyleX, StyleY}

\* A sync_style_run_length that leaves the last run as it is
sync_style_run_length_stale(runs, len) == runs

\* DocumentAnalyzer::sync_style_run_length
sync_style_run_length(runs, len) ==
    IF runs # <<>>
    THEN [runs EXCEPT ![Len(runs)].wch_end = len]
    ELSE runs

\* A start_style_run that replaces a zero-length last run instead of pushing
start_style_run_coalesce(runs, len, style) ==
    LET run == [wch_start |-> len, wch_end |-> len, style |-> style]
    IN  IF runs # <<>> /\ runs[Len(runs)].wch_end <= runs[Len(runs)].wch_start
        THEN [runs EXCEPT ![Len(runs)] = run]
        ELSE Append(runs, run)

\* A start_style_run that leaves the end at 0 for a later sync to set
start_style_run_end_zero(runs, len, style) ==
    Append(runs, [wch_start |-> len, wch_end |-> 0, style |-> style])

\* DocumentAnalyzer::start_style_run
start_style_run(runs, len, style) ==
    Append(runs, [wch_start |-> len, wch_end |-> len, style |-> style])

\* style_stack.last().cloned().unwrap_or_default()
last_or_default(stack) ==
    IF stack # <<>> THEN stack[Len(stack)] ELSE DefaultStyle

\* if let Some(style) = self.style_stack.last_mut() { style.merge(s) }
merge_into_last(stack, s) ==
    IF stack # <<>>
    THEN [stack EXCEPT ![Len(stack)] = merge(@, s)]
    ELSE stack

\* An Embed arm that resumes with the style the children left behind
resume_style_inner(frame, stack) == last_or_default(stack)

\* the style of the run started after the children: the saved last_style
resume_style(frame, stack) == frame.last_style

\* A pop that removes nothing
pop_nothing(stack) == stack

\* Vec::pop
pop(stack) ==
    IF stack # <<>> THEN SubSeq(stack, 1, Len(stack) - 1) ELSE stack

\* content nodes visited so far (an Embed counts once, when it is entered)
NodeCount == Cardinality({i \in DOMAIN trace : trace[i].kind # "Exit"})

Event(kind, tx, s) ==
    [kind |-> kind, tx |-> tx, s |-> s, pre |-> last_or_default(style_stack),
     stack |-> style_stack]

\* DocumentAnalyzer::new(); no merge harness, no store
AnalyzerInit ==
    /\ text = <<>> /\ style_runs = <<>> /\ style_stack = <<>>
    /\ call_stack = <<>> /\ trace = <<>> /\ layout = <<>>
    /\ phase = "analyzing"
    /\ m_self = DefaultStyle /\ m_other = DefaultStyle
    /\ m_result = DefaultStyle /\ m_pc = "idle"
    /\ last_path_id = 0 /\ path_defs = <<>> /\ hist = <<>> /\ xml_defs = <<>>
    /\ sinks = <<>> /\ sink_log = <<>> /\ figure_open = FALSE
    /\ frames = <<>> /\ renderer = <<>> /\ draws = <<>> /\ render_phase = "idle"
    /\ svg = <<>>
    /\ o_args = <<>> /\ o_result = <<>> /\ e_frame = <<>> /\ e_element = <<>>
    /\ pc = "idle" /\ opt_output = <<>> /\ n_frames = 0 /\ frame_i = 0
    /\ out_bytes = <<>> /\ exit_status = "idle"

\* analyze(Text(tx))
AnalyzeText(tx) ==
    LET ws == encode_utf16(tx) IN
    /\ phase = "analyzing"
    /\ NodeCount < MaxNodes
    /\ text' = text \o ws
    /\ style_runs' = sync_style_run_length(style_runs, Len(text'))
    /\ trace' = Append(trace, Event("Text", tx, DefaultStyle))
    /\ UNCHANGED <<style_stack, call_stack, layout, phase>>
    /\ UNCHANGED <<merge_vars, store_vars,
                 sink_vars, render_vars, offset_vars, escape_vars, main_vars>>

\* analyze(Style(s))
AnalyzeStyle(s) ==
    /\ phase = "analyzing"
    /\ NodeCount < MaxNodes
    /\ style_stack' = merge_into_last(style_stack, s)
    /\ style_runs' = start_style_run(style_runs, Len(text), last_or_default(style_stack'))
    /\ trace' = Append(trace, Event("Style", <<>>, s))
    /\ UNCHANGED <<text, call_stack, layout, phase>>
    /\ UNCHANGED <<merge_vars, store_vars,
                 sink_vars, render_vars, offset_vars, escape_vars, main_vars>>

\* analyze(Embed(sub)) up to the loop over sub
AnalyzeEmbedEnter ==
    LET synced     == sync_style_run_length(style_runs, Len(text))
        last_style == last_or_default(style_stack)
        inner_style == last_style
    IN
    /\ phase = "analyzing"
    /\ Len(call_stack) < MaxDepth
    /\ NodeCount < MaxNodes
    /\ style_stack' = Append(style_stack, inner_style)
    /\ style_runs' = start_style_run(synced, Len(text), inner_style)
    /\ call_stack' = Append(call_stack, [last_style |-> last_style])
    /\ trace' = Append(trace, Event("Enter", <<>>, DefaultStyle))
    /\ UNCHANGED <<text, layout, phase>>
    /\ UNCHANGED <<merge_vars, store_vars,
                 sink_vars, render_vars, offset_vars, escape_vars, main_vars>>

\* analyze(Embed(sub)) after the loop over sub
AnalyzeEmbedExit ==
    /\ phase = "analyzing"
    /\ call_stack # <<>>
    /\ style_stack' = pop(style_stack)
    /\ style_runs' = start_style_run(style_runs, Len(text),
                                     resume_style(call_stack[Len(call_stack)], style_stack))
    /\ call_stack' = SubSeq(call_stack, 1, Len(call_stack) - 1)
    /\ trace' = Append(trace, Event("Exit", <<>>, DefaultStyle))
    /\ UNCHANGED <<text, layout, phase>>
    /\ UNCHANGED <<merge_vars, store_vars,
                 sink_vars, render_vars, offset_vars, escape_vars, main_vars>>

\* the layout setters create_text_layout calls for one run's style; layout4 tells
\* whether the layout casts to IDWriteTextLayout4
style_setters(style, layout4) ==
    {n \in {"SetFontFamilyName", "SetFontWeight", "SetFontStretch", "SetFontStyle",
            "SetFontSize", "SetDrawingEffect", "SetLocaleName", "SetTypography",
            "SetFontAxisValues"} :
        CASE n = "SetFontFamilyName" -> is_some(style.font_family)
          [] n = "SetFontWeight"     -> is_some(style.font_weight)
          [] n = "SetFontStretch"    -> is_some(style.font_width)
          [] n = "SetFontStyle"      -> is_some(style.font_style)
          [] n = "SetFontSize"       -> is_some(style.font_size)
          [] n = "SetDrawingEffect"  -> is_some(style.color)
          [] n = "SetLocaleName"     -> is_some(style.lang)
          [] n = "SetTypography"     -> DOMAIN style.font_feature_settings # {}
          [] n = "SetFontAxisValues" ->
                DOMAIN style.font_variation_settings # {} /\ layout4}

\* A loop that skips no run
skip_run_never(run) == FALSE

\* if style_run.wch_end <= style_run.wch_start { continue; }
skip_run(run) == run.wch_end <= run.wch_start

RECURSIVE apply_style_runs(_, _, _, _)
\* for style_run in self.style_runs.iter() { ... }
apply_style_runs(runs, i, applied, layout4) ==
    IF i > Len(runs) THEN applied
    ELSE IF skip_run(runs[i]) THEN apply_style_runs(runs, i + 1, applied, layout4)
    ELSE apply_style_runs(runs, i + 1,
            Append(applied,
                   [startPosition |-> runs[i].wch_start,
                    length  |-> runs[i].wch_end - runs[i].wch_start,
                    style   |-> runs[i].style,
                    setters |-> style_setters(runs[i].style, layout4)]),
            layout4)

\* create_text_layout(&self, ...) returning Ok(layout): called once analyze has returned
CreateTextLayout(layout4) ==
    /\ phase = "analyzing"
    /\ call_stack = <<>>
    /\ layout' = apply_style_runs(style_runs, 1, <<>>, layout4)
    /\ phase' = "laid_out"
    /\ UNCHANGED <<text, style_runs, style_stack, call_stack, trace>>
    /\ UNCHANGED <<merge_vars, store_vars,
                 sink_vars, render_vars, offset_vars, escape_vars, main_vars>>

\* create_text_layout returning Err: a DirectWrite call failed, the layout is dropped
CreateTextLayoutErr ==
    /\ phase = "analyzing"
    /\ call_stack = <<>>
    /\ layout' = <<>>
    /\ phase' = "layout_failed"
    /\ UNCHANGED <<text, style_runs, style_stack, call_stack, trace>>
    /\ UNCHANGED <<merge_vars, store_vars,
                 sink_vars, render_vars, offset_vars, escape_vars, main_vars>>

AnalyzerNext ==
    \/ \E tx \in Texts : AnalyzeText(tx)
    \/ \E s \in DocStyles : AnalyzeStyle(s)
    \/ AnalyzeEmbedEnter
    \/ AnalyzeEmbedExit
    \/ \E layout4 \in BOOLEAN : CreateTextLayout(layout4)
    \/ CreateTextLayoutErr

SpecAnalyzer == AnalyzerInit /\ [][AnalyzerNext]_vars


(***************************************************************************)
(* SharedStore                                                             *)
(***************************************************************************)

\* Path-data strings handed to add_path_def
PathStrs == {"", "M 0 0 L 1 0 Z ", "M 0 0 Q 1 1 2 0 ", "M 1 1 L 2 2 "}

\* IndexMap::entry lookup: the position of the key in insertion order, 0 if vacant
get_index_of(defs, str) ==
    IF \E i \in 1..Len(defs) : defs[i].key = str
    THEN CHOOSE i \in 1..Len(defs) : defs[i].key = str
    ELSE 0

\* An occupied arm that answers with the counter instead of the stored id
occupied_returns_counter(last, defs, i) ==
    [last_path_id |-> last, path_defs |-> defs, ret |-> last]

\* Entry::Occupied(o) => *o.get()
entry_occupied(last, defs, i) ==
    [last_path_id |-> last, path_defs |-> defs, ret |-> defs[i].id]

\* A vacant arm on a map that keeps newest entries first
vacant_inserts_first(last, defs, str) ==
    [last_path_id |-> last + 1,
     path_defs    |-> <<[key |-> str, id |-> last + 1]>> \o defs,
     ret          |-> last + 1]

\* Entry::Vacant(v) => { self.last_path_id += 1; v.insert(self.last_path_id); self.last_path_id }
entry_vacant(last, defs, str) ==
    [last_path_id |-> last + 1,
     path_defs    |-> Append(defs, [key |-> str, id |-> last + 1]),
     ret          |-> last + 1]

\* add_path_def without the early return for the empty string
add_path_def_no_empty_check(last, defs, str) ==
    LET i == get_index_of(defs, str) IN
    IF i > 0 THEN entry_occupied(last, defs, i) ELSE entry_vacant(last, defs, str)

\* SharedStore::add_path_def: the store after the call and the id returned
add_path_def(last, defs, str) ==
    IF str = ""
    THEN [last_path_id |-> last, path_defs |-> defs, ret |-> 0]
    ELSE LET i == get_index_of(defs, str) IN
         IF i > 0 THEN entry_occupied(last, defs, i) ELSE entry_vacant(last, defs, str)

\* SharedStore::new(); no merge harness, no analyzer
StoreInit ==
    /\ last_path_id = 0 /\ path_defs = <<>> /\ hist = <<>> /\ xml_defs = <<>>
    /\ m_self = DefaultStyle /\ m_other = DefaultStyle
    /\ m_result = DefaultStyle /\ m_pc = "idle"
    /\ text = <<>> /\ style_runs = <<>> /\ style_stack = <<>>
    /\ call_stack = <<>> /\ trace = <<>> /\ layout = <<>> /\ phase = "idle"
    /\ sinks = <<>> /\ sink_log = <<>> /\ figure_open = FALSE
    /\ frames = <<>> /\ renderer = <<>> /\ draws = <<>> /\ render_phase = "idle"
    /\ svg = <<>>
    /\ o_args = <<>> /\ o_result = <<>> /\ e_frame = <<>> /\ e_element = <<>>
    /\ pc = "idle" /\ opt_output = <<>> /\ n_frames = 0 /\ frame_i = 0
    /\ out_bytes = <<>> /\ exit_status = "idle"

\* shared_store.borrow_mut().add_path_def(str)
AddPathDef(str) ==
    LET r == add_path_def(last_path_id, path_defs, str) IN
    /\ Len(hist) < MaxCalls
    /\ last_path_id' = r.last_path_id
    /\ path_defs' = r.path_defs
    /\ hist' = Append(hist, [arg |-> str, ret |-> r.ret,
                             id_after |-> r.last_path_id,
                             size_after |-> Len(r.path_defs)])
    /\ UNCHANGED xml_defs
    /\ UNCHANGED <<merge_vars, analyzer_vars,
                 sink_vars, render_vars, offset_vars, escape_vars, main_vars>>

\* into_xml: one <path id="path{id}" d="{path_d}"> per entry, in the map's iteration order
IntoXml ==
    /\ xml_defs' = [i \in 1..Len(path_defs) |->
                        [id |-> <<"path", path_defs[i].id>>, d |-> path_defs[i].key]]
    /\ UNCHANGED <<last_path_id, path_defs, hist>>
    /\ UNCHANGED <<merge_vars, analyzer_vars,
                 sink_vars, render_vars, offset_vars, escape_vars, main_vars>>

StoreNext ==
    \/ \E str \in PathStrs : AddPathDef(str)
    \/ IntoXml

SpecStore == StoreInit /\ [][StoreNext]_vars


(***************************************************************************)
(* Claims about SharedStore (checked under SpecStore)                      *)
(***************************************************************************)

RECURSIVE FirstSeen(_)
\* the distinct non-empty arguments of the calls h, in order of first appearance
FirstSeen(h) ==
    IF h = <<>> THEN <<>>
    ELSE LET p == FirstSeen(SubSeq(h, 1, Len(h) - 1))
             a == h[Len(h)].arg
         IN  IF a = "" \/ (\E k \in 1..Len(p) : p[k] = a) THEN p ELSE Append(p, a)

\* counter and catalog size before call i
IdBefore(i) == IF i = 1 THEN 0 ELSE hist[i - 1].id_after

SizeBefore(i) == IF i = 1 THEN 0 ELSE hist[i - 1].size_after

\* C8: two add_path_def calls with the same non-empty string return the same
\* id however many other strings were interned in between, and the catalog
\* still maps each string to the id every call for it returned.
C8_PathDedup ==
    /\ \A i, j \in DOMAIN hist :
          (hist[i].arg = hist[j].arg /\ hist[i].arg # "") => hist[i].ret = hist[j].ret
    /\ \A i \in DOMAIN hist :
          hist[i].arg # "" =>
              \E k \in DOMAIN path_defs :
                  path_defs[k].key = hist[i].arg /\ path_defs[k].id = hist[i].ret

\* C8 witness: a string interned, two other strings interned, the first one again.
C8_Witness ==
    \E i, j, k, l \in DOMAIN hist :
        /\ i < j /\ j < k /\ k < l
        /\ hist[i].arg # "" /\ hist[l].arg = hist[i].arg
        /\ hist[j].arg \notin {"", hist[i].arg}
        /\ hist[k].arg \notin {"", hist[i].arg, hist[j].arg}
        /\ hist[l].ret = hist[i].ret /\ hist[l].ret < hist[k].ret

\* C9: add_path_def("") returns 0 and changes neither the counter nor the
\* catalog, no catalog entry has the empty key, and a new non-empty string
\* interned right after it gets the id it would have got in its place.
C9_EmptyString ==
    /\ \A i \in DOMAIN hist :
          hist[i].arg = "" =>
              /\ hist[i].ret = 0
              /\ hist[i].id_after = IdBefore(i)
              /\ hist[i].size_after = SizeBefore(i)
              /\ (i < Len(hist) /\ hist[i + 1].arg # ""
                    /\ \A j \in 1..i : hist[j].arg # hist[i + 1].arg)
                 => hist[i + 1].ret = IdBefore(i) + 1
    /\ \A k \in DOMAIN path_defs : path_defs[k].key # ""

\* C9 witness: the empty string interned after one path and before a new one.
C9_Witness ==
    \E i \in DOMAIN hist :
        /\ 1 < i /\ i < Len(hist)
        /\ hist[i].arg = "" /\ hist[i].ret = 0
        /\ hist[i - 1].ret = 1
        /\ hist[i + 1].ret = 2
        /\ Len(path_defs) = 2

\* C10: the catalog lists the distinct non-empty strings interned so far in
\* order of first interning, the k-th of them under id k, so ids are 1..n
\* without repetition; every call returns that id; the counter equals the
\* catalog size; into_xml emits the entries in that order, ids ascending.
C10_Bijection ==
    LET D == FirstSeen(hist) IN
    /\ Len(path_defs) = Len(D)
    /\ \A k \in DOMAIN path_defs : path_defs[k].key = D[k] /\ path_defs[k].id = k
    /\ last_path_id = Len(path_defs)
    /\ \A i \in DOMAIN hist :
          hist[i].arg # "" =>
              \E k \in 1..Len(D) : D[k] = hist[i].arg /\ hist[i].ret = k
    /\ Len(xml_defs) <= Len(D)
    /\ \A k \in DOMAIN xml_defs : xml_defs[k].id = <<"path", k>> /\ xml_defs[k].d = D[k]

\* C10 witness: three distinct paths interned among a repeat and an empty
\* string, then emitted.
C10_Witness ==
    /\ Len(path_defs) = 3
    /\ Len(xml_defs) = 3
    /\ Len(hist) = 5
    /\ \E i \in DOMAIN hist : hist[i].arg = ""
    /\ \E i, j \in DOMAIN hist : i < j /\ hist[i].arg = hist[j].arg /\ hist[i].arg # ""


(***************************************************************************)
(* Claims about DocumentAnalyzer (checked under SpecAnalyzer)              *)
(*                                                                         *)
(* trace is the analysed content in document order; the helpers below read *)
(* offsets and run positions off the trace alone, so that the claims relate *)
(* the analyzer's output to its input.                                     *)
(***************************************************************************)

RECURSIVE Utf16Len(_)
\* UTF-16 code units of a string: two for a code point above the BMP
Utf16Len(tx) ==
    IF tx = <<>> THEN 0
    ELSE (IF Head(tx) > 65535 THEN 2 ELSE 1) + Utf16Len(Tail(tx))

RECURSIVE Offset(_)
\* UTF-16 code units of the Text nodes among the first i trace entries
Offset(i) ==
    IF i = 0 THEN 0
    ELSE Offset(i - 1) + (IF trace[i].kind = "Text" THEN Utf16Len(trace[i].tx) ELSE 0)

\* position in the run list of the run that trace entry i started
\* (StyleChange, Embed entry and Embed exit start one run each)
RunIndexOf(i) == Cardinality({j \in 1..i : trace[j].kind # "Text"})

\* nesting depth after trace entry i
DepthAfter(i) ==
    Cardinality({j \in 1..i : trace[j].kind = "Enter"})
    - Cardinality({j \in 1..i : trace[j].kind = "Exit"})

\* the entry that opened the Embed closed by trace entry i
MatchingEnter(i) ==
    CHOOSE j \in 1..(i - 1) :
        /\ trace[j].kind = "Enter" /\ DepthAfter(j) = DepthAfter(i - 1)
        /\ \A k \in (j + 1)..(i - 1) :
              ~(trace[k].kind = "Enter" /\ DepthAfter(k) = DepthAfter(i - 1))

\* effective style in force after trace entry i
EffectiveAfter(i) ==
    IF i < Len(trace) THEN trace[i + 1].pre ELSE last_or_default(style_stack)

NonZeroRuns == SelectSeq(style_runs, LAMBDA r : r.wch_end > r.wch_start)

KindsAre(kinds) ==
    /\ Len(trace) >= Len(kinds)
    /\ \A i \in 1..Len(kinds) : trace[i].kind = kinds[i]

\* C1: every StyleChange(s), also one handled by a fresh builder with no
\* Embed open, starts a run whose style is merge(E, s), E being the effective
\* style before the change, and leaves merge(E, s) as the effective style.
C1_StyleChangeMerges ==
    \A i \in DOMAIN trace :
        trace[i].kind = "Style" =>
            /\ RunIndexOf(i) \in DOMAIN style_runs
            /\ style_runs[RunIndexOf(i)].style = merge(trace[i].pre, trace[i].s)
            /\ EffectiveAfter(i) = merge(trace[i].pre, trace[i].s)

\* C2: the run started when an Embed is left has the effective style in
\* force just before the Embed was entered, whatever StyleChange nodes its
\* children held; Text nodes following the Embed as siblings lie in that
\* run; and that style is again the effective style after the Embed. For
\* [Style(X), Embed([Style(Y)]), Text(z)] the run covering z has style X and
\* not merge(X, Y).
C2_EmbedScoping ==
    /\ \A i \in DOMAIN trace :
          trace[i].kind = "Exit" =>
              LET j == MatchingEnter(i)
                  r == RunIndexOf(i)
              IN  /\ r \in DOMAIN style_runs
                  /\ style_runs[r].style = trace[j].pre
                  /\ EffectiveAfter(i) = trace[j].pre
                  /\ \A t \in (i + 1)..Len(trace) :
                        (\A u \in (i + 1)..t : trace[u].kind = "Text") =>
                            /\ style_runs[r].wch_start <= Offset(t - 1)
                            /\ Offset(t) <= style_runs[r].wch_end
    /\ \A X, Y \in DocStyles :
          ( /\ KindsAre(<<"Enter", "Style", "Enter", "Style", "Exit", "Text">>)
            /\ trace[2].s = X /\ trace[4].s = Y /\ merge(X, Y) # X )
          => /\ \E r \in DOMAIN style_runs :
                   style_runs[r].wch_start = 0 /\ style_runs[r].wch_end > 0
             /\ \A r \in DOMAIN style_runs :
                   (style_runs[r].wch_start <= 0 /\ 0 < style_runs[r].wch_end)
                   => (style_runs[r].style = X /\ style_runs[r].style # merge(X, Y))

\* C2 witness: [Style(X), Embed([Style(Y)]), Text("Z")] analysed, "Z" in a
\* run of style X.
C2_Witness ==
    /\ Len(trace) = 6
    /\ KindsAre(<<"Enter", "Style", "Enter", "Style", "Exit", "Text">>)
    /\ trace[2].s = StyleX /\ trace[4].s = StyleY /\ trace[6].tx = <<90>>
    /\ style_runs[5] = [wch_start |-> 0, wch_end |-> 1, style |-> StyleX]
    /\ style_runs[4].style = merge(StyleX, StyleY)

\* C3: for the content [Text(t1), Style(X), Text(t2)] with non-empty t1 and
\* t2, analysed by a fresh builder, the runs of non-zero length are exactly
\* [0, |t1|) with the default style and [|t1|, |t1|+|t2|) with style X,
\* lengths in UTF-16 code units.
C3_RunSegmentation ==
    ( /\ Len(trace) = 5
      /\ KindsAre(<<"Enter", "Text", "Style", "Text", "Exit">>)
      /\ trace[2].tx # <<>> /\ trace[4].tx # <<>> )
    => NonZeroRuns =
          << [wch_start |-> 0, wch_end |-> Utf16Len(trace[2].tx), style |-> DefaultStyle],
             [wch_start |-> Utf16Len(trace[2].tx),
              wch_end   |-> Utf16Len(trace[2].tx) + Utf16Len(trace[4].tx),
              style     |-> trace[3].s] >>

\* C3 witness: [Text(U+1F600), Style(X), Text("Z")] analysed: runs [0,2) and [2,3).
C3_Witness ==
    /\ Len(trace) = 5
    /\ KindsAre(<<"Enter", "Text", "Style", "Text", "Exit">>)
    /\ trace[2].tx = <<128512>> /\ trace[3].s = StyleX /\ trace[4].tx = <<90>>
    /\ Len(text) = 3
    /\ Len(style_runs) = 3
    /\ NonZeroRuns = << [wch_start |-> 0, wch_end |-> 2, style |-> DefaultStyle],
                        [wch_start |-> 2, wch_end |-> 3, style |-> StyleX] >>

\* C6: the run list is ordered by non-decreasing start offset and every run
\* has start <= end <= length of the text buffer.
C6_RunsOrdered ==
    /\ \A i, j \in DOMAIN style_runs :
          i < j => style_runs[i].wch_start <= style_runs[j].wch_start
    /\ \A i \in DOMAIN style_runs :
          /\ style_runs[i].wch_start <= style_runs[i].wch_end
          /\ style_runs[i].wch_end <= Len(text)

\* C6 witness: several analyze calls made, runs starting at different
\* offsets, a zero-length run and a run of positive length among them.
C6_Witness ==
    /\ call_stack = <<>>
    /\ Len(style_runs) >= 4
    /\ \E i, j \in DOMAIN style_runs :
          /\ i < j /\ 0 < style_runs[i].wch_start
          /\ style_runs[i].wch_start < style_runs[j].wch_start
          /\ style_runs[i].wch_start < style_runs[i].wch_end
          /\ style_runs[j].wch_start = style_runs[j].wch_end

\* C7: the builder keeps every run it started: each StyleChange, each Embed
\* entry and each Embed exit in the trace has its own run, at its position
\* and start offset, so a closed content tree has one run per StyleChange
\* and two per Embed, zero-length ones included; create_text_layout applies
\* attributes for exactly the runs with end > start, in order, and leaves
\* the run list as it is.
C7_ZeroLengthRuns ==
    /\ Len(style_runs) = RunIndexOf(Len(trace))
    /\ \A i \in DOMAIN trace :
          trace[i].kind # "Text" =>
              /\ RunIndexOf(i) \in DOMAIN style_runs
              /\ style_runs[RunIndexOf(i)].wch_start = Offset(i)
    /\ call_stack = <<>> =>
          Len(style_runs) =
              Cardinality({i \in DOMAIN trace : trace[i].kind = "Style"})
              + 2 * Cardinality({i \in DOMAIN trace : trace[i].kind = "Enter"})
    /\ phase = "laid_out" =>
          LET kept == {i \in DOMAIN style_runs :
                          style_runs[i].wch_end > style_runs[i].wch_start}
          IN  /\ Len(layout) = Cardinality(kept)
              /\ \A i \in kept :
                    \E k \in DOMAIN layout :
                        /\ k = Cardinality({h \in kept : h <= i})
                        /\ layout[k].startPosition = style_runs[i].wch_start
                        /\ layout[k].length =
                               style_runs[i].wch_end - style_runs[i].wch_start
                        /\ layout[k].style = style_runs[i].style
              /\ \A k \in DOMAIN layout : layout[k].length > 0

\* C7 witness: a layout created from a run list that holds zero-length runs
\* and two runs of positive length.
C7_Witness ==
    /\ phase = "laid_out"
    /\ Len(layout) = 2
    /\ Len(style_runs) >= 4
    /\ \E i, j \in DOMAIN style_runs :
          /\ i < j
          /\ style_runs[i].wch_end = style_runs[i].wch_start
          /\ style_runs[j].wch_end = style_runs[j].wch_start


\* the non-zero-length runs that hold text position p (counted from 0)
RunsHolding(p) ==
    {i \in DOMAIN style_runs :
        style_runs[i].wch_start <= p /\ p < style_runs[i].wch_end}

\* C20: after any sequence of analyze calls, and at every point inside one,
\* a non-empty run list has consecutive runs abutting (run[i].end =
\* run[i+1].start) and its last run ending at the text length; so runs of
\* non-zero length never overlap and every text position at or after the
\* first run's start lies in exactly one of them.
C20_RunsAbut ==
    style_runs # <<>> =>
        /\ \A i \in 1..(Len(style_runs) - 1) :
              style_runs[i].wch_end = style_runs[i + 1].wch_start
        /\ style_runs[Len(style_runs)].wch_end = Len(text)
        /\ \A p \in 0..(Len(text) - 1) :
              /\ Cardinality(RunsHolding(p)) <= 1
              /\ p >= style_runs[1].wch_start => Cardinality(RunsHolding(p)) = 1

\* all calls have returned, text was added before the first run and in two
\* later runs, and a zero-length run lies between runs
C20_Witness ==
    /\ call_stack = <<>>
    /\ Len(style_runs) >= 3
    /\ style_runs[1].wch_start > 0
    /\ Cardinality({i \in DOMAIN style_runs :
                       style_runs[i].wch_end > style_runs[i].wch_start}) >= 2
    /\ \E i \in 1..(Len(style_runs) - 1) :
          style_runs[i].wch_end = style_runs[i].wch_start
    /\ style_runs[Len(style_runs)].wch_end = Len(text)

\* the style stack before and after visit k of the trace
StackBefore(k) == trace[k].stack

StackAfter(k) == IF k < Len(trace) THEN trace[k + 1].stack ELSE style_stack

\* Embed nodes open before visit k
OpenBefore(k) ==
    Cardinality({i \in 1..(k - 1) : trace[i].kind = "Enter"})
        - Cardinality({i \in 1..(k - 1) : trace[i].kind = "Exit"})

\* the visit at which the Embed entered at visit i returns; 0 while it is open
ExitOf(i) ==
    LET js == {j \in (i + 1)..Len(trace) :
                  trace[j].kind = "Exit" /\ OpenBefore(j) = OpenBefore(i) + 1}
    IN  IF js = {} THEN 0 ELSE CHOOSE j \in js : \A j2 \in js : j <= j2

\* C21: analyze on an Embed node leaves the style stack as it found it: when
\* the call returns the stack has the depth and the styles, element for
\* element, it had when the Embed was entered, whatever is nested inside;
\* while the Embed is open the stack is never shorter than at entry (and the
\* entries it had at entry stay as they were); analyze on a Text node never
\* changes the stack.
C21_EmbedKeepsStack ==
    /\ \A i \in DOMAIN trace :
          trace[i].kind = "Enter" =>
              LET entry == StackBefore(i)
                  j     == ExitOf(i)
                  last  == IF j = 0 THEN Len(trace) ELSE j
              IN  /\ \A k \in i..last :
                        (k # j) =>
                            /\ Len(StackAfter(k)) >= Len(entry)
                            /\ SubSeq(StackAfter(k), 1, Len(entry)) = entry
                  /\ \A k \in (i + 1)..last : Len(StackBefore(k)) >= Len(entry)
                  /\ j # 0 => StackAfter(j) = entry
    /\ \A k \in DOMAIN trace :
          trace[k].kind = "Text" => StackAfter(k) = StackBefore(k)

\* an Embed entered with a non-empty stack (inside another Embed) has
\* returned; inside it a Style node changed the top of the stack and a Text
\* node was visited, and the stack is again what it was at entry
C21_Witness ==
    \E i \in DOMAIN trace :
        /\ trace[i].kind = "Enter"
        /\ StackBefore(i) # <<>>
        /\ ExitOf(i) # 0
        /\ StackAfter(ExitOf(i)) = StackBefore(i)
        /\ \E k \in (i + 1)..(ExitOf(i) - 1) :
              /\ trace[k].kind = "Style"
              /\ StackAfter(k) # StackBefore(k)
        /\ \E k \in (i + 1)..(ExitOf(i) - 1) : trace[k].kind = "Text"

(***************************************************************************)
(* f32                                                                     *)
(*                                                                         *)
(* A value is the exact fraction <<n, d>> in lowest terms, d > 0. The      *)
(* inputs below are small dyadic fractions and small integers, on which    *)
(* the f32 operations used here are exact.                                 *)
(***************************************************************************)
RECURSIVE gcd(_, _)
gcd(a, b) == IF b = 0 THEN a ELSE gcd(b, a % b)

\* the f32 n/d (d > 0)
f32(n, d) ==
    LET g == gcd(IF n < 0 THEN -n ELSE n, d)
    IN  <<(IF n < 0 THEN -((-n) \div g) ELSE n \div g), d \div g>>

\* an integer as f32
float(n) == <<n, 1>>

fadd(a, b) == f32(a[1] * b[2] + b[1] * a[2], a[2] * b[2])

fsub(a, b) == f32(a[1] * b[2] - b[1] * a[2], a[2] * b[2])

fmul(a, b) == f32(a[1] * b[1], a[2] * b[2])

\* a / b for b # 0
fdiv(a, b) ==
    IF b[1] > 0 THEN f32(a[1] * b[2], a[2] * b[1])
    ELSE f32(-(a[1] * b[2]), a[2] * (-b[1]))

\* f32::abs
abs(a) == <<(IF a[1] < 0 THEN -a[1] ELSE a[1]), a[2]>>

\* a < b
flt(a, b) == a[1] * b[2] < b[1] * a[2]

\* f32::round: to the nearest integer, half-way cases away from zero
round(a) ==
    IF a[1] >= 0
    THEN float((2 * a[1] + a[2]) \div (2 * a[2]))
    ELSE float(-((2 * (-a[1]) + a[2]) \div (2 * a[2])))

(***************************************************************************)
(* SvgGeometrySink                                                         *)
(*                                                                         *)
(* body, a String, is kept as the sequence of the pieces written to it,    *)
(* one per write!: <<"M", x, y>>, <<"L", x, y>>, <<"Q", xm, ym, x3, y3>>,  *)
(* <<"C", x1, y1, x2, y2, x3, y3>>, <<"Z">>. Display of f32 gives distinct *)
(* values distinct texts, so two bodies are the same text exactly when     *)
(* they are the same sequence; the empty String is <<>>.                   *)
(***************************************************************************)
COORD_RESOLUTION == 256

\* D2D_POINT_2F
Point(x, y) == [x |-> x, y |-> y]

\* SvgGeometrySink::new
SvgGeometrySink_new(scalar) ==
    [scalar |-> scalar, body |-> <<>>, last_x |-> float(0), last_y |-> float(0)]

\* A reset that hands out the text and keeps it
reset_keep(sink) == [sink |-> sink, ret |-> sink.body]

\* SvgGeometrySink::reset: self.body.replace(String::new())
reset(sink) == [sink |-> [sink EXCEPT !.body = <<>>], ret |-> sink.body]

\* A process_coord that rounds towards zero
process_coord_trunc(sink, f) ==
    LET v == fmul(fmul(f, sink.scalar), float(COORD_RESOLUTION))
        t == IF v[1] >= 0 THEN float(v[1] \div v[2]) ELSE float(-((-v[1]) \div v[2]))
    IN  fdiv(t, float(COORD_RESOLUTION))

\* SvgGeometrySink::process_coord
process_coord(sink, f) ==
    fdiv(round(fmul(fmul(f, sink.scalar), float(COORD_RESOLUTION))),
         float(COORD_RESOLUTION))

\* SvgGeometrySink::set_last_point
set_last_point(sink, x, y) == [sink EXCEPT !.last_x = x, !.last_y = y]

\* write!(body, ...)
write(sink, piece) == [sink EXCEPT !.body = Append(@, piece)]

\* BeginFigure
BeginFigure(sink, start_point) ==
    LET cx == process_coord(sink, start_point.x)
        cy == process_coord(sink, start_point.y)
    IN  set_last_point(write(sink, <<"M", cx, cy>>), start_point.x, start_point.y)

RECURSIVE AddLines(_, _)
\* AddLines: for i in 0..points_count
AddLines(sink, points) ==
    IF points = <<>> THEN sink
    ELSE LET point == Head(points)
             cx == process_coord(sink, point.x)
             cy == process_coord(sink, point.y)
         IN  AddLines(set_last_point(write(sink, <<"L", cx, cy>>), point.x, point.y),
                      Tail(points))

\* A tolerance test on the coordinates multiplied by the sink's scalar
collapses_scaled(sink, xm1, ym1, xm2, ym2) ==
    /\ flt(fmul(float(COORD_RESOLUTION), abs(fmul(fsub(xm2, xm1), sink.scalar))), float(1))
    /\ flt(fmul(float(COORD_RESOLUTION), abs(fmul(fsub(ym2, ym1), sink.scalar))), float(1))

\* A tolerance test on the x axis alone
collapses_x_only(sink, xm1, ym1, xm2, ym2) ==
    flt(fmul(float(COORD_RESOLUTION), abs(fsub(xm2, xm1))), float(1))

\* COORD_RESOLUTION * (xm2 - xm1).abs() < 1.0 && COORD_RESOLUTION * (ym2 - ym1).abs() < 1.0
collapses(sink, xm1, ym1, xm2, ym2) ==
    /\ flt(fmul(float(COORD_RESOLUTION), abs(fsub(xm2, xm1))), float(1))
    /\ flt(fmul(float(COORD_RESOLUTION), abs(fsub(ym2, ym1))), float(1))

\* one iteration of the loop of AddBeziers
AddBezier(sink, curve) ==
    LET x0_orig == sink.last_x
        y0_orig == sink.last_y
        x1_orig == curve.point1.x
        y1_orig == curve.point1.y
        x2_orig == curve.point2.x
        y2_orig == curve.point2.y
        x3_orig == curve.point3.x
        y3_orig == curve.point3.y
        xm1 == fadd(x0_orig, fmul(fsub(x1_orig, x0_orig), f32(3, 2)))
        ym1 == fadd(y0_orig, fmul(fsub(y1_orig, y0_orig), f32(3, 2)))
        xm2 == fadd(x3_orig, fmul(fsub(x2_orig, x3_orig), f32(3, 2)))
        ym2 == fadd(y3_orig, fmul(fsub(y2_orig, y3_orig), f32(3, 2)))
        x1 == process_coord(sink, x1_orig)
        y1 == process_coord(sink, y1_orig)
        x2 == process_coord(sink, x2_orig)
        y2 == process_coord(sink, y2_orig)
        x3 == process_coord(sink, x3_orig)
        y3 == process_coord(sink, y3_orig)
        xm == process_coord(sink, fdiv(fadd(xm1, xm2), float(2)))
        ym == process_coord(sink, fdiv(fadd(ym1, ym2), float(2)))
        piece == IF collapses(sink, xm1, ym1, xm2, ym2)
                 THEN <<"Q", xm, ym, x3, y3>>
                 ELSE <<"C", x1, y1, x2, y2, x3, y3>>
    IN  set_last_point(write(sink, piece), x3_orig, y3_orig)

RECURSIVE AddBeziers(_, _)
\* AddBeziers: for i in 0..beziers_count
AddBeziers(sink, beziers) ==
    IF beziers = <<>> THEN sink
    ELSE AddBeziers(AddBezier(sink, Head(beziers)), Tail(beziers))

\* EndFigure
EndFigure(sink, closed) ==
    IF closed THEN write(sink, <<"Z">>) ELSE sink

\* one call on the sink's callback interface
sink_call(sink, c) ==
    CASE c.op = "BeginFigure" -> BeginFigure(sink, c.start_point)
      [] c.op = "AddLines"    -> AddLines(sink, c.points)
      [] c.op = "AddBeziers"  -> AddBeziers(sink, c.beziers)
      [] c.op = "EndFigure"   -> EndFigure(sink, c.closed)

(***************************************************************************)
(* The sink harness: one sink per scalar, all fed the same calls, the way  *)
(* DirectWrite drives a sink: figures are begun, extended and ended, and   *)
(* the owner takes the text between figures.                               *)
(***************************************************************************)
MaxSinkCalls == 4    \* calls made on the sinks

\* scalars of the sinks under test: 1/2, 1 and 4
Scalars == {f32(1, 2), float(1), float(4)}

\* points handed to BeginFigure and AddLines
SinkPoints == {Point(float(0), float(0)), Point(f32(3, 512), f32(-5, 2))}

\* cubic segments handed to AddBeziers, drawn from (0, 0): a quadratic written
\* as a cubic; the same with point2 moved right by 1/512 and by 1/256; an S-curve
CurveExact ==
    [point1 |-> Point(float(2), float(2)), point2 |-> Point(float(4), float(2)),
     point3 |-> Point(float(6), float(0))]

CurveNear ==
    [point1 |-> Point(float(2), float(2)), point2 |-> Point(f32(2049, 512), float(2)),
     point3 |-> Point(float(6), float(0))]

CurveEdge ==
    [point1 |-> Point(float(2), float(2)), point2 |-> Point(f32(1025, 256), float(2)),
     point3 |-> Point(float(6), float(0))]

CurveS ==
    [point1 |-> Point(float(2), float(2)), point2 |-> Point(float(4), float(-2)),
     point3 |-> Point(float(6), float(0))]

\* a quadratic from (6, 0) to (12, 0) written as a cubic
CurveExactNext ==
    [point1 |-> Point(float(8), float(2)), point2 |-> Point(float(10), float(2)),
     point3 |-> Point(float(12), float(0))]

\* the arrays handed to AddLines and to AddBeziers
SinkLines ==
    {<<p>> : p \in SinkPoints}
    \cup {<<Point(float(1), float(0)), Point(float(1), float(1))>>}

SinkBeziers ==
    {<<CurveExact>>, <<CurveNear>>, <<CurveEdge>>, <<CurveS>>,
     <<CurveExact, CurveExactNext>>, <<CurveS, CurveExact>>}

\* the calls DirectWrite may make next
SinkCallsNow ==
    IF figure_open
    THEN {[op |-> "AddLines", points |-> ps] : ps \in SinkLines}
         \cup {[op |-> "AddBeziers", beziers |-> bs] : bs \in SinkBeziers}
         \cup {[op |-> "EndFigure", closed |-> c] : c \in BOOLEAN}
    ELSE {[op |-> "BeginFigure", start_point |-> p] : p \in SinkPoints}

\* SvgGeometrySink::new(scalar) for each scalar; nothing else in use
SinkInit ==
    /\ sinks = [s \in Scalars |-> SvgGeometrySink_new(s)]
    /\ sink_log = <<>> /\ figure_open = FALSE
    /\ m_self = DefaultStyle /\ m_other = DefaultStyle
    /\ m_result = DefaultStyle /\ m_pc = "idle"
    /\ text = <<>> /\ style_runs = <<>> /\ style_stack = <<>>
    /\ call_stack = <<>> /\ trace = <<>> /\ layout = <<>> /\ phase = "idle"
    /\ last_path_id = 0 /\ path_defs = <<>> /\ hist = <<>> /\ xml_defs = <<>>
    /\ frames = <<>> /\ renderer = <<>> /\ draws = <<>> /\ render_phase = "idle"
    /\ svg = <<>>
    /\ o_args = <<>> /\ o_result = <<>> /\ e_frame = <<>> /\ e_element = <<>>
    /\ pc = "idle" /\ opt_output = <<>> /\ n_frames = 0 /\ frame_i = 0
    /\ out_bytes = <<>> /\ exit_status = "idle"

\* BeginFigure, AddLines, AddBeziers or EndFigure called on every sink
SinkCall(c) ==
    /\ Len(sink_log) < MaxSinkCalls
    /\ c \in SinkCallsNow
    /\ sinks' = [s \in Scalars |-> sink_call(sinks[s], c)]
    /\ sink_log' = Append(sink_log, c)
    /\ figure_open' = CASE c.op = "BeginFigure" -> TRUE
                        [] c.op = "EndFigure" -> FALSE
                        [] OTHER -> figure_open
    /\ UNCHANGED <<merge_vars, analyzer_vars, store_vars,
                   render_vars, offset_vars, escape_vars, main_vars>>

\* reset() called on every sink, between two figures
SinkReset ==
    /\ Len(sink_log) < MaxSinkCalls
    /\ ~figure_open
    /\ sinks' = [s \in Scalars |-> reset(sinks[s]).sink]
    /\ sink_log' = Append(sink_log, [op |-> "reset",
                                     ret |-> [s \in Scalars |-> reset(sinks[s]).ret]])
    /\ UNCHANGED figure_open
    /\ UNCHANGED <<merge_vars, analyzer_vars, store_vars,
                   render_vars, offset_vars, escape_vars, main_vars>>

SinkNext ==
    \/ \E c \in SinkCallsNow : SinkCall(c)
    \/ SinkReset

SpecSink == SinkInit /\ [][SinkNext]_vars

(***************************************************************************)
(* SvgDocumentRenderer, SvgFrameRenderer                                   *)
(*                                                                         *)
(* DirectWrite is the environment: it hands DrawGlyphRun a glyph run and   *)
(* answers GetGlyphRunOutline by calls on the sink. The font below has     *)
(* three glyphs, given in design units: 0 has no outline (a space), 1 is a *)
(* closed triangle, 2 an open curve that is a quadratic written as a cubic.*)
(***************************************************************************)
MaxFrames == 2    \* frame renderers created on one document renderer
MaxDraws  == 2    \* DrawGlyphRun calls on one document renderer

\* DWRITE_FONT_METRICS.designUnitsPerEm of the font
designUnitsPerEm == 1024

\* the font's outlines, in design units
DesignOutline(g) ==
    CASE g = 0 -> <<>>
      [] g = 1 -> << [op |-> "BeginFigure", start_point |-> Point(float(0), float(0))],
                     [op |-> "AddLines",
                      points |-> <<Point(float(512), float(0)), Point(float(512), float(768))>>],
                     [op |-> "EndFigure", closed |-> TRUE] >>
      [] g = 2 -> << [op |-> "BeginFigure", start_point |-> Point(float(0), float(0))],
                     [op |-> "AddBeziers",
                      beziers |-> << [point1 |-> Point(float(256), float(256)),
                                      point2 |-> Point(float(512), float(256)),
                                      point3 |-> Point(float(768), float(0))] >>],
                     [op |-> "EndFigure", closed |-> FALSE] >>

\* the font's advance widths, in design units
DesignAdvance(g) == CASE g = 0 -> 256 [] g = 1 -> 512 [] g = 2 -> 768

\* a design-unit point at em size em
AtEmSize(pt, em) ==
    Point(fmul(pt.x, f32(em, designUnitsPerEm)), fmul(pt.y, f32(em, designUnitsPerEm)))

\* a sink call of the outline at em size em
CallAtEmSize(c, em) ==
    CASE c.op = "BeginFigure" ->
            [op |-> c.op, start_point |-> AtEmSize(c.start_point, em)]
      [] c.op = "AddLines" ->
            [op |-> c.op, points |-> [i \in DOMAIN c.points |-> AtEmSize(c.points[i], em)]]
      [] c.op = "AddBeziers" ->
            [op |-> c.op,
             beziers |-> [i \in DOMAIN c.beziers |->
                             [point1 |-> AtEmSize(c.beziers[i].point1, em),
                              point2 |-> AtEmSize(c.beziers[i].point2, em),
                              point3 |-> AtEmSize(c.beziers[i].point3, em)]]]
      [] c.op = "EndFigure" -> c

RECURSIVE sink_calls(_, _)
sink_calls(sink, cs) ==
    IF cs = <<>> THEN sink ELSE sink_calls(sink_call(sink, Head(cs)), Tail(cs))

\* font_face.GetGlyphRunOutline(fontEmSize, &glyphIndices[i], .., 1, .., &geometry_sink)
\* returning Ok: DirectWrite draws the glyph's outline, at the em size, on the sink
GetGlyphRunOutline(sink, fontEmSize, glyphIndex) ==
    LET o == DesignOutline(glyphIndex)
    IN  sink_calls(sink, [i \in DOMAIN o |-> CallAtEmSize(o[i], fontEmSize)])

\* DWRITE_GLYPH_RUN with its DWRITE_GLYPH_RUN_DESCRIPTION
GlyphRun(indices, bidiLevel, fontEmSize, string) ==
    [fontFace      |-> TRUE,
     glyphCount    |-> Len(indices),
     glyphIndices  |-> indices,
     glyphAdvances |-> [i \in DOMAIN indices |->
                           f32(DesignAdvance(indices[i]) * fontEmSize, designUnitsPerEm)],
     bidiLevel     |-> bidiLevel,
     fontEmSize    |-> fontEmSize,
     string        |-> string]

\* offsets main passes to create_frame_renderer
FrameOffsets == {<<float(0), float(0)>>, <<float(452), float(492)>>}

\* SvgFrame::new
SvgFrame_new == [runs |-> <<>>, copyable |-> FALSE, frame_title |-> None, frame_desc |-> None]

\* A direction that ignores the bidi level
direction_ltr(bidiLevel) == float(1)

\* let direction = if bidiLevel % 2 == 1 { -1.0 } else { 1.0 }
direction(bidiLevel) == IF bidiLevel % 2 = 1 THEN float(-1) ELSE float(1)

\* A test that records every glyph
records_glyph_always(path_id) == TRUE

\* if path_id > 0
records_glyph(path_id) == path_id > 0

\* A loop that advances the pen before the glyph is placed
glyph_offset_x_after(offset_x, dir, advance) == fadd(offset_x, fmul(dir, advance))

\* the pen position a glyph is placed at: offset_x as it is when the glyph is pushed
glyph_offset_x(offset_x, dir, advance) == offset_x

\* An advance that leaves the pen in place after a glyph without outline
next_offset_x_skip_empty(offset_x, dir, advance, path_id) ==
    IF path_id > 0 THEN fadd(offset_x, fmul(dir, advance)) ELSE offset_x

\* offset_x += direction * glyphAdvances[i]
next_offset_x(offset_x, dir, advance, path_id) == fadd(offset_x, fmul(dir, advance))

RECURSIVE draw_glyphs(_, _, _, _)
\* for i in 0..glyph_count { ... }; fail_at is the glyph at which GetGlyphRunOutline
\* returns Err (0: at none). st holds the locals and the shared store.
draw_glyphs(glyph_run, i, st, fail_at) ==
    IF i > glyph_run.glyphCount THEN [st EXCEPT !.ok = TRUE]
    ELSE IF i = fail_at THEN [st EXCEPT !.ok = FALSE]
    ELSE
    LET drawn   == GetGlyphRunOutline(st.sink, glyph_run.fontEmSize, glyph_run.glyphIndices[i])
        r       == reset(drawn)
        a       == add_path_def(st.last_path_id, st.path_defs, r.ret)
        path_id == a.ret
        dir     == direction(glyph_run.bidiLevel)
        adv     == glyph_run.glyphAdvances[i]
        glyphs  == IF records_glyph(path_id)
                   THEN Append(st.glyphs,
                               [path_id  |-> path_id,
                                offset_x |-> process_coord(r.sink,
                                                 glyph_offset_x(st.offset_x, dir, adv)),
                                offset_y |-> process_coord(r.sink, st.offset_y)])
                   ELSE st.glyphs
    IN  draw_glyphs(glyph_run, i + 1,
            [sink         |-> r.sink,
             last_path_id |-> a.last_path_id,
             path_defs    |-> a.path_defs,
             glyphs       |-> glyphs,
             offset_x     |-> next_offset_x(st.offset_x, dir, adv, path_id),
             offset_y     |-> st.offset_y,
             steps        |-> Append(st.steps,
                                     [glyph |-> i, pen |-> st.offset_x, path |-> r.ret,
                                      path_id |-> path_id, advance |-> adv,
                                      id_after |-> a.last_path_id,
                                      size_after |-> Len(a.path_defs),
                                      body_after |-> r.sink.body,
                                      placed |-> IF Len(glyphs) > Len(st.glyphs)
                                                 THEN Len(glyphs) ELSE 0]),
             ok           |-> TRUE],
            fail_at)

RECURSIVE from_utf16_lossy(_)
\* String::from_utf16_lossy: a surrogate pair is one code point, a lone surrogate U+FFFD
from_utf16_lossy(ws) ==
    IF ws = <<>> THEN <<>>
    ELSE LET u == Head(ws) IN
         IF u < 55296 \/ u > 57343 THEN <<u>> \o from_utf16_lossy(Tail(ws))
         ELSE IF u < 56320 /\ Len(ws) >= 2 /\ ws[2] >= 56320 /\ ws[2] <= 57343
         THEN <<65536 + (u - 55296) * 1024 + (ws[2] - 56320)>>
              \o from_utf16_lossy(Tail(Tail(ws)))
         ELSE <<65533>> \o from_utf16_lossy(Tail(ws))

\* dw_angle_to_angle: quarters is the orientation angle in quarter turns
dw_angle_to_angle(quarters, is_sideways) ==
    float(90 * (IF is_sideways THEN (1 + quarters) % 4 ELSE quarters))

\* one DrawGlyphRun call as DirectWrite makes it
DrawCall(x, y, quarters, is_sideways, color, glyph_run) ==
    [baseline_origin_x |-> x, baseline_origin_y |-> y,
     orientation_angle |-> quarters, isSideways |-> is_sideways,
     color |-> color, glyph_run |-> glyph_run]

DrawCalls ==
    { DrawCall(float(0), float(20), 0, FALSE, None,
               GlyphRun(<<1, 0, 2>>, 0, 1024, <<108, 32, 99>>)),
      DrawCall(float(8), f32(81, 2), 0, FALSE, Some("#ff0000"),
               GlyphRun(<<1, 0, 2>>, 1, 1024, <<108, 32, 99>>)),
      DrawCall(float(0), float(20), 1, FALSE, None,
               GlyphRun(<<2, 1>>, 2, 256, <<99, 108>>)),
      DrawCall(float(0), float(20), 3, TRUE, None,
               GlyphRun(<<2, 2, 1>>, 1, 256, <<99, 99, 108>>)),
      DrawCall(float(0), float(20), 0, FALSE, None,
               GlyphRun(<<0>>, 1, 2048, <<32>>)),
      DrawCall(float(0), float(20), 0, FALSE, None,
               GlyphRun(<<0, 1>>, 0, 2048, <<55357, 108>>)),
      DrawCall(float(0), float(20), 0, FALSE, None,
               GlyphRun(<<>>, 0, 1024, <<>>)),
      DrawCall(float(0), float(20), 0, FALSE, None,
               [GlyphRun(<<1>>, 0, 1024, <<108>>) EXCEPT !.fontFace = FALSE]) }

\* A push_run that files every run under the document's first frame
push_run_first_frame(fs, f, run) == [fs EXCEPT ![1].runs = Append(@, run)]

\* SvgFrameRenderer::push_run: self.frame_store.borrow_mut().runs.push(run)
push_run(fs, f, run) == [fs EXCEPT ![f].runs = Append(@, run)]

\* SvgDocumentRenderer::new(); no merge harness, analyzer, sink harness, ...
RenderInit ==
    /\ frames = <<>> /\ renderer = None /\ draws = <<>> /\ render_phase = "drawing"
    /\ svg = None
    /\ last_path_id = 0 /\ path_defs = <<>> /\ hist = <<>> /\ xml_defs = <<>>
    /\ m_self = DefaultStyle /\ m_other = DefaultStyle
    /\ m_result = DefaultStyle /\ m_pc = "idle"
    /\ text = <<>> /\ style_runs = <<>> /\ style_stack = <<>>
    /\ call_stack = <<>> /\ trace = <<>> /\ layout = <<>> /\ phase = "idle"
    /\ sinks = <<>> /\ sink_log = <<>> /\ figure_open = FALSE
    /\ o_args = <<>> /\ o_result = <<>> /\ e_frame = <<>> /\ e_element = <<>>
    /\ pc = "idle" /\ opt_output = <<>> /\ n_frames = 0 /\ frame_i = 0
    /\ out_bytes = <<>> /\ exit_status = "idle"

\* SvgDocumentRenderer::create_frame_renderer; the renderer of the frame before
\* it has been consumed by text_layout.Draw
CreateFrameRenderer(offset_x, offset_y) ==
    /\ render_phase = "drawing"
    /\ Len(frames) < MaxFrames
    /\ frames' = Append(frames, SvgFrame_new)
    /\ renderer' = Some([frame_store |-> Len(frames) + 1,
                         offset_x |-> offset_x, offset_y |-> offset_y])
    /\ UNCHANGED <<draws, render_phase, svg>>
    /\ UNCHANGED <<merge_vars, analyzer_vars, store_vars,
                   sink_vars, offset_vars, escape_vars, main_vars>>

\* IDWriteTextRenderer1_Impl::DrawGlyphRun, called by text_layout.Draw on the
\* renderer in use; returns Err when GetGlyphRunOutline does (fail_at > 0)
DrawGlyphRun(call, fail_at) ==
    LET self      == renderer[1]
        glyph_run == call.glyph_run
        scalar    == f32(designUnitsPerEm, glyph_run.fontEmSize)
    IN
    /\ render_phase = "drawing"
    /\ renderer # None
    /\ Len(draws) < MaxDraws
    /\ fail_at \in 0..glyph_run.glyphCount
    /\ fail_at > 0 => glyph_run.fontFace
    /\ \E st \in {draw_glyphs(glyph_run, 1,
                      [sink         |-> SvgGeometrySink_new(scalar),
                       last_path_id |-> last_path_id,
                       path_defs    |-> path_defs,
                       glyphs       |-> <<>>,
                       offset_x     |-> float(0),
                       offset_y     |-> float(0),
                       steps        |-> <<>>,
                       ok           |-> TRUE],
                      fail_at)} :
       LET run == [offset_x     |-> fadd(call.baseline_origin_x, self.offset_x),
                   offset_y     |-> fadd(call.baseline_origin_y, self.offset_y),
                   rotate_angle |-> dw_angle_to_angle(call.orientation_angle,
                                                      call.isSideways),
                   upm          |-> float(designUnitsPerEm),
                   scalar       |-> scalar,
                   color        |-> call.color,
                   source_text  |-> from_utf16_lossy(glyph_run.string),
                   glyphs       |-> st.glyphs,
                   copyable     |-> frames[self.frame_store].copyable]
       IN
       IF glyph_run.fontFace
       THEN /\ last_path_id' = st.last_path_id
            /\ path_defs' = st.path_defs
            /\ hist' = hist \o [i \in DOMAIN st.steps |->
                                   [arg |-> st.steps[i].path, ret |-> st.steps[i].path_id,
                                    id_after |-> st.steps[i].id_after,
                                    size_after |-> st.steps[i].size_after]]
            /\ frames' = IF st.ok THEN push_run(frames, self.frame_store, run) ELSE frames
            /\ render_phase' = IF st.ok THEN "drawing" ELSE "failed"
            /\ draws' = Append(draws, [frame |-> self.frame_store, call |-> call,
                                       ok |-> st.ok, steps |-> st.steps,
                                       run |-> IF st.ok THEN Some(run) ELSE None])
       ELSE /\ UNCHANGED <<last_path_id, path_defs, hist, frames, render_phase>>
            /\ draws' = Append(draws, [frame |-> self.frame_store, call |-> call,
                                       ok |-> TRUE, steps |-> <<>>, run |-> None])
    /\ UNCHANGED <<renderer, xml_defs, svg>>
    /\ UNCHANGED <<merge_vars, analyzer_vars, sink_vars, offset_vars, escape_vars, main_vars>>


(***************************************************************************)
(* Claims about DrawGlyphRun and the frame renderers (checked under        *)
(* SpecRender)                                                             *)
(*                                                                         *)
(* draws[d].steps[i].pen is the local offset_x at the start of iteration i *)
(* of the loop of call d; the advances are read off the call's glyph run.  *)
(***************************************************************************)

\* C11: in every DrawGlyphRun the pen is 0 at the first glyph, and the pen at
\* glyph i+1 is the pen at glyph i plus the advance of glyph i when the bidi
\* level is even and minus that advance when it is odd; so with positive
\* advances the pen positions strictly increase (even) or decrease (odd).
C11_AdvanceDirection ==
    \A d \in DOMAIN draws :
        LET gr    == draws[d].call.glyph_run
            steps == draws[d].steps
        IN  /\ (steps # <<>>) => steps[1].pen = float(0)
            /\ \A i \in DOMAIN steps :
                  (i + 1 \in DOMAIN steps) =>
                      /\ (gr.bidiLevel % 2 = 0) =>
                            /\ steps[i + 1].pen = fadd(steps[i].pen, gr.glyphAdvances[i])
                            /\ flt(float(0), gr.glyphAdvances[i])
                                  => flt(steps[i].pen, steps[i + 1].pen)
                      /\ (gr.bidiLevel % 2 = 1) =>
                            /\ steps[i + 1].pen = fsub(steps[i].pen, gr.glyphAdvances[i])
                            /\ flt(float(0), gr.glyphAdvances[i])
                                  => flt(steps[i + 1].pen, steps[i].pen)

\* C11 witness: the three-glyph run drawn once at bidi level 0 and once at
\* level 1: pens 0, 512, 768 and 0, -512, -768.
C11_Witness ==
    /\ \E d \in DOMAIN draws :
          /\ draws[d].call.glyph_run.bidiLevel = 0
          /\ Len(draws[d].steps) = 3
          /\ draws[d].steps[2].pen = float(512) /\ draws[d].steps[3].pen = float(768)
    /\ \E d \in DOMAIN draws :
          /\ draws[d].call.glyph_run.bidiLevel = 1
          /\ Len(draws[d].steps) = 3
          /\ draws[d].steps[2].pen = float(-512) /\ draws[d].steps[3].pen = float(-768)

RECURSIVE PenAt(_, _)
\* the pen at glyph i of glyph run gr: the advances of the glyphs before i,
\* added up with the sign of the run's direction
PenAt(gr, i) ==
    IF i <= 1 THEN float(0)
    ELSE IF gr.bidiLevel % 2 = 1
         THEN fsub(PenAt(gr, i - 1), gr.glyphAdvances[i - 1])
         ELSE fadd(PenAt(gr, i - 1), gr.glyphAdvances[i - 1])

\* C12: in a DrawGlyphRun that returns Ok, the run's glyph list holds one
\* PlacedGlyph for each glyph whose interned id is not 0 and none for the
\* others, in glyph order; it carries that id and the pen position reached
\* before the glyph's own advance, in the sink's coordinates; a glyph with an
\* empty outline gets id 0 and no PlacedGlyph, and the pen of the glyphs
\* after it includes its advance.
C12_PlacedGlyphs ==
    \A d \in DOMAIN draws :
        draws[d].run # None =>
            LET gr     == draws[d].call.glyph_run
                steps  == draws[d].steps
                run    == draws[d].run[1]
                placed == {i \in DOMAIN steps : steps[i].path_id # 0}
                unit   == SvgGeometrySink_new(f32(designUnitsPerEm, gr.fontEmSize))
            IN  /\ Len(steps) = gr.glyphCount
                /\ Len(run.glyphs) = Cardinality(placed)
                /\ \A i \in DOMAIN steps :
                      /\ (steps[i].path_id = 0) <=> (DesignOutline(gr.glyphIndices[i]) = <<>>)
                      /\ steps[i].path_id # 0 =>
                            LET k == Cardinality({j \in placed : j <= i}) IN
                            /\ k \in DOMAIN run.glyphs
                            /\ run.glyphs[k].path_id = steps[i].path_id
                            /\ run.glyphs[k].offset_x = process_coord(unit, PenAt(gr, i))
                            /\ run.glyphs[k].offset_y = float(0)

\* C12 witness: the run of a triangle, a space and a curve drawn at bidi level
\* 0 and em size 1024: two PlacedGlyphs, the curve at 768 = 512 + 256.
C12_Witness ==
    \E d \in DOMAIN draws :
        /\ draws[d].run # None
        /\ draws[d].call.glyph_run.glyphIndices = <<1, 0, 2>>
        /\ draws[d].call.glyph_run.bidiLevel = 0
        /\ draws[d].steps[2].path_id = 0
        /\ Len(draws[d].run[1].glyphs) = 2
        /\ draws[d].run[1].glyphs[1].offset_x = float(0)
        /\ draws[d].run[1].glyphs[2].offset_x = float(768)


\* the runs drawn through the renderer of frame f, in draw order
RunsDrawn(f) ==
    LET ds == SelectSeq(draws, LAMBDA d : d.frame = f /\ d.run # None)
    IN  [k \in DOMAIN ds |-> ds[k].run[1]]

\* every outline string interned so far, with the frame it was drawn in
Interned ==
    UNION {{[frame |-> draws[d].frame, path |-> draws[d].steps[i].path,
             path_id |-> draws[d].steps[i].path_id] : i \in DOMAIN draws[d].steps} :
           d \in DOMAIN draws}

\* C18: all frame renderers of a document renderer intern into one path
\* store: an outline string seen while drawing one frame and again while
\* drawing another gets the same path id, and the catalog holds one entry for
\* it; nothing else is shared: the run list of each frame is exactly the runs
\* drawn through that frame's own renderer, in draw order.
C18_CrossFrameDedup ==
    /\ \A a \in Interned : \A b \in Interned :
          (a.path = b.path /\ a.path # <<>>) => a.path_id = b.path_id
    /\ \A a \in Interned :
          a.path # <<>> =>
              /\ a.path_id > 0
              /\ Cardinality({k \in DOMAIN path_defs : path_defs[k].key = a.path}) = 1
              /\ \E k \in DOMAIN path_defs :
                    path_defs[k].key = a.path /\ path_defs[k].id = a.path_id
    /\ \A f \in DOMAIN frames : frames[f].runs = RunsDrawn(f)

\* two frames, a run drawn in each, and an outline of the first frame's run
\* met again in the second frame's run under the id it was given in the first
C18_Witness ==
    /\ Len(frames) = 2
    /\ Len(frames[1].runs) = 1 /\ Len(frames[2].runs) = 1
    /\ frames[1].runs # frames[2].runs
    /\ \E a \in Interned : \E b \in Interned :
          /\ a.frame = 1 /\ b.frame = 2
          /\ a.path # <<>> /\ a.path = b.path /\ a.path_id = b.path_id
    /\ Len(path_defs) < Cardinality({a \in Interned : a.path # <<>>})

\* the path data of glyph g drawn on its own, in design units
OutlineAlone(g) ==
    CASE g = 0 -> <<>>
      [] g = 1 -> << <<"M", float(0), float(0)>>, <<"L", float(512), float(0)>>,
                     <<"L", float(512), float(768)>>, <<"Z">> >>
      [] g = 2 -> << <<"M", float(0), float(0)>>,
                     <<"Q", float(384), float(384), float(768), float(0)>> >>

\* C19: reset() takes the path data accumulated since the previous reset and
\* leaves the accumulator empty: in every DrawGlyphRun, which uses one sink
\* for the whole run and resets it once after each glyph, the path interned
\* for glyph i is the path data of glyph i alone, the accumulator is empty
\* after each reset, and a reset that follows a reset with nothing drawn in
\* between (a glyph with an empty outline) returns the empty string.
C19_ResetTakeAndClear ==
    \A d \in DOMAIN draws :
        LET gr    == draws[d].call.glyph_run
            steps == draws[d].steps
        IN  \A i \in DOMAIN steps :
               /\ steps[i].path = OutlineAlone(gr.glyphIndices[i])
               /\ steps[i].body_after = <<>>
               /\ DesignOutline(gr.glyphIndices[i]) = <<>> => steps[i].path = <<>>

\* the run of glyphs 1, 0, 2 has been drawn: the first reset returned the
\* triangle, the second nothing, the third the curve without the triangle
C19_Witness ==
    \E d \in DOMAIN draws :
        /\ draws[d].ok
        /\ draws[d].call.glyph_run.glyphIndices = <<1, 0, 2>>
        /\ Len(draws[d].steps) = 3
        /\ Len(draws[d].steps[1].path) = 4
        /\ draws[d].steps[2].path = <<>>
        /\ Len(draws[d].steps[3].path) = 2
        /\ draws[d].steps[3].path[1][1] = "M"

(***************************************************************************)
(* Claims about SvgGeometrySink (checked under SpecSink)                   *)
(*                                                                         *)
(* The helpers read the calls off sink_log and find, for each, the pieces  *)
(* of text it produced in a sink: the text a sink has produced so far is   *)
(* what its resets returned, in order, followed by its body.               *)
(***************************************************************************)

\* pieces of text one call produces
PiecesOf(c) ==
    CASE c.op = "BeginFigure" -> 1
      [] c.op = "AddLines"    -> Len(c.points)
      [] c.op = "AddBeziers"  -> Len(c.beziers)
      [] c.op = "EndFigure"   -> IF c.closed THEN 1 ELSE 0
      [] c.op = "reset"       -> 0

RECURSIVE PiecesBefore(_)
\* pieces produced by the first i calls
PiecesBefore(i) == IF i = 0 THEN 0 ELSE PiecesBefore(i - 1) + PiecesOf(sink_log[i])

RECURSIVE Taken(_, _)
\* what the resets among the first i calls returned to the owner of sink s
Taken(s, i) ==
    IF i = 0 THEN <<>>
    ELSE Taken(s, i - 1) \o (IF sink_log[i].op = "reset" THEN sink_log[i].ret[s] ELSE <<>>)

\* all text sink s has produced
Produced(s) == Taken(s, Len(sink_log)) \o sinks[s].body

RECURSIVE LastPointAfter(_)
\* the last point drawn by the first i calls; (0, 0) on a new sink
LastPointAfter(i) ==
    IF i = 0 THEN Point(float(0), float(0))
    ELSE LET c == sink_log[i] IN
         CASE c.op = "BeginFigure" -> c.start_point
           [] c.op = "AddLines"    -> c.points[Len(c.points)]
           [] c.op = "AddBeziers"  -> c.beziers[Len(c.beziers)].point3
           [] OTHER                -> LastPointAfter(i - 1)

\* the cubic segments drawn so far, as <<call, index in the call>>
CubicsDrawn ==
    {<<i, k>> \in (DOMAIN sink_log) \X (1..2) :
        sink_log[i].op = "AddBeziers" /\ k <= Len(sink_log[i].beziers)}

\* start point of cubic segment <<i, k>>
P0(i, k) == IF k = 1 THEN LastPointAfter(i - 1) ELSE sink_log[i].beziers[k - 1].point3

\* the derived control points M1 = P0 + 1.5 (P1 - P0) = (3 P1 - P0) / 2 and
\* M2 = P3 + 1.5 (P2 - P3) = (3 P2 - P3) / 2 of cubic segment <<i, k>>
M1(i, k) ==
    LET c == sink_log[i].beziers[k] IN
    Point(fdiv(fsub(fmul(float(3), c.point1.x), P0(i, k).x), float(2)),
          fdiv(fsub(fmul(float(3), c.point1.y), P0(i, k).y), float(2)))

M2(i, k) ==
    LET c == sink_log[i].beziers[k] IN
    Point(fdiv(fsub(fmul(float(3), c.point2.x), c.point3.x), float(2)),
          fdiv(fsub(fmul(float(3), c.point2.y), c.point3.y), float(2)))

\* a and b are less than 1/256 apart
Within256th(a, b) == flt(abs(fsub(a, b)), f32(1, 256))

\* v multiplied by scalar s and rounded to a multiple of 1/256
Quantized(s, v) == fdiv(round(fmul(fmul(v, s), float(256))), float(256))

\* the piece sink s produced for cubic segment <<i, k>>
PieceOf(s, i, k) ==
    IF PiecesBefore(i - 1) + k \in DOMAIN Produced(s)
    THEN Produced(s)[PiecesBefore(i - 1) + k]
    ELSE <<"none">>

\* the quadratic and the cubic command for cubic segment <<i, k>> in sink s
QuadraticFor(s, i, k) ==
    LET c == sink_log[i].beziers[k] IN
    <<"Q", Quantized(s, fdiv(fadd(M1(i, k).x, M2(i, k).x), float(2))),
           Quantized(s, fdiv(fadd(M1(i, k).y, M2(i, k).y), float(2))),
           Quantized(s, c.point3.x), Quantized(s, c.point3.y)>>

CubicFor(s, i, k) ==
    LET c == sink_log[i].beziers[k] IN
    <<"C", Quantized(s, c.point1.x), Quantized(s, c.point1.y),
           Quantized(s, c.point2.x), Quantized(s, c.point2.y),
           Quantized(s, c.point3.x), Quantized(s, c.point3.y)>>

\* C13: for every cubic segment the sink emits the quadratic command
\* (control point the midpoint of M1 and M2, end P3) exactly when M1 and M2
\* multiplied by the sink's scalar are within 1/256 of each other on both
\* axes, and the full cubic command otherwise.
C13_CollapseTestScaled ==
    \A s \in Scalars : \A e \in CubicsDrawn :
        LET i == e[1]
            k == e[2]
        IN  PieceOf(s, i, k) =
                IF /\ Within256th(fmul(M1(i, k).x, s), fmul(M2(i, k).x, s))
                   /\ Within256th(fmul(M1(i, k).y, s), fmul(M2(i, k).y, s))
                THEN QuadraticFor(s, i, k)
                ELSE CubicFor(s, i, k)

\* C14: the tolerance test is made on the coordinates as they were passed
\* in: the sink emits the quadratic command exactly when M1 and M2 themselves
\* are within 1/256 of each other on both axes, so sinks of different
\* scalars make the same choice for the same segment; the scalar and the
\* rounding to 1/256 enter only the control and end points emitted.
C14_CollapseTestUnscaled ==
    \A e \in CubicsDrawn :
        LET i == e[1]
            k == e[2]
        IN  /\ \A s \in Scalars :
                  PieceOf(s, i, k) =
                      IF /\ Within256th(M1(i, k).x, M2(i, k).x)
                         /\ Within256th(M1(i, k).y, M2(i, k).y)
                      THEN QuadraticFor(s, i, k)
                      ELSE CubicFor(s, i, k)
            /\ \A s, t \in Scalars : PieceOf(s, i, k)[1] = PieceOf(t, i, k)[1]

\* C14 witness: a segment whose M1 and M2 are 3/1024 apart, a quadratic in
\* the sinks of all three scalars, and a segment that is a cubic in all three.
C14_Witness ==
    /\ \E e \in CubicsDrawn :
          /\ M1(e[1], e[2]).x # M2(e[1], e[2]).x
          /\ \A s \in Scalars : PieceOf(s, e[1], e[2])[1] = "Q"
    /\ \E e \in CubicsDrawn :
          /\ \A s \in Scalars : PieceOf(s, e[1], e[2])[1] = "C"
    /\ \E s, t \in Scalars :
          \E j \in DOMAIN Produced(s) : Produced(s)[j] # Produced(t)[j]


(***************************************************************************)
(* DocumentAnalyzer::compute_layout_offset                                 *)
(***************************************************************************)

\* Option::unwrap_or
unwrap_or(o, default) == IF is_some(o) THEN o[1] ELSE default

\* match frame.horizontal_align { Left => 0.0, Center => 0.5, Right => 1.0 }
factor_h(horizontal_align) ==
    CASE horizontal_align = "Left"   -> float(0)
      [] horizontal_align = "Center" -> f32(1, 2)
      [] horizontal_align = "Right"  -> float(1)

\* match frame.vertical_align { Top => 0.0, Center => 0.5, Bottom => 1.0 }
factor_v(vertical_align) ==
    CASE vertical_align = "Top"    -> float(0)
      [] vertical_align = "Center" -> f32(1, 2)
      [] vertical_align = "Bottom" -> float(1)

\* An offset that aligns the corner of the text box instead of its anchor
compute_layout_offset_corner(canvas_width, canvas_height, frame, metrics) ==
    LET frame_left   == unwrap_or(frame.left, float(0))
        frame_top    == unwrap_or(frame.top, float(0))
        frame_right  == unwrap_or(frame.right, canvas_width)
        frame_bottom == unwrap_or(frame.bottom, canvas_height)
        frame_cx == fadd(frame_left,
                         fmul(factor_h(frame.horizontal_align), fsub(frame_right, frame_left)))
        frame_cy == fadd(frame_top,
                         fmul(factor_v(frame.vertical_align), fsub(frame_bottom, frame_top)))
    IN  <<fsub(frame_cx, metrics.left), fsub(frame_cy, metrics.top)>>

\* An offset whose unset right and bottom edges default to 0
compute_layout_offset_zero_edges(canvas_width, canvas_height, frame, metrics) ==
    LET frame_left   == unwrap_or(frame.left, float(0))
        frame_top    == unwrap_or(frame.top, float(0))
        frame_right  == unwrap_or(frame.right, float(0))
        frame_bottom == unwrap_or(frame.bottom, float(0))
        tm_cx == fadd(metrics.left, fmul(factor_h(frame.horizontal_align), metrics.width))
        tm_cy == fadd(metrics.top, fmul(factor_v(frame.vertical_align), metrics.height))
        frame_cx == fadd(frame_left,
                         fmul(factor_h(frame.horizontal_align), fsub(frame_right, frame_left)))
        frame_cy == fadd(frame_top,
                         fmul(factor_v(frame.vertical_align), fsub(frame_bottom, frame_top)))
    IN  <<fsub(frame_cx, tm_cx), fsub(frame_cy, tm_cy)>>

\* DocumentAnalyzer::compute_layout_offset
compute_layout_offset(canvas_width, canvas_height, frame, metrics) ==
    LET frame_left   == unwrap_or(frame.left, float(0))
        frame_top    == unwrap_or(frame.top, float(0))
        frame_right  == unwrap_or(frame.right, canvas_width)
        frame_bottom == unwrap_or(frame.bottom, canvas_height)
        tm_cx == fadd(metrics.left, fmul(factor_h(frame.horizontal_align), metrics.width))
        tm_cy == fadd(metrics.top, fmul(factor_v(frame.vertical_align), metrics.height))
        frame_cx == fadd(frame_left,
                         fmul(factor_h(frame.horizontal_align), fsub(frame_right, frame_left)))
        frame_cy == fadd(frame_top,
                         fmul(factor_v(frame.vertical_align), fsub(frame_bottom, frame_top)))
    IN  <<fsub(frame_cx, tm_cx), fsub(frame_cy, tm_cy)>>

\* canvas sizes, frame edges and measured metrics passed in
CanvasSizes == {<<float(1024), float(1024)>>, <<float(640), float(480)>>}

Edges == {None, Some(float(100)), Some(f32(601, 2))}

HAligns == {"Left", "Center", "Right"}

VAligns == {"Top", "Center", "Bottom"}

TextMetrics ==
    { [left |-> float(10), top |-> float(10), width |-> float(100), height |-> float(20)],
      [left |-> float(-3), top |-> float(0), width |-> float(75), height |-> f32(57, 2)] }

\* the arguments of one call; nothing else in use
OffsetInit ==
    /\ o_args \in [canvas : CanvasSizes,
                   frame : [left : Edges, top : {None, Some(float(40))},
                            right : Edges, bottom : {None, Some(float(400))},
                            horizontal_align : HAligns, vertical_align : VAligns],
                   metrics : TextMetrics]
    /\ o_result = None
    /\ m_self = DefaultStyle /\ m_other = DefaultStyle
    /\ m_result = DefaultStyle /\ m_pc = "idle"
    /\ text = <<>> /\ style_runs = <<>> /\ style_stack = <<>>
    /\ call_stack = <<>> /\ trace = <<>> /\ layout = <<>> /\ phase = "idle"
    /\ last_path_id = 0 /\ path_defs = <<>> /\ hist = <<>> /\ xml_defs = <<>>
    /\ sinks = <<>> /\ sink_log = <<>> /\ figure_open = FALSE
    /\ frames = <<>> /\ renderer = <<>> /\ draws = <<>> /\ render_phase = "idle"
    /\ svg = <<>>
    /\ e_frame = <<>> /\ e_element = <<>>
    /\ pc = "idle" /\ opt_output = <<>> /\ n_frames = 0 /\ frame_i = 0
    /\ out_bytes = <<>> /\ exit_status = "idle"

\* DocumentAnalyzer::compute_layout_offset(canvas_width, canvas_height, frame, &metrics)
ComputeLayoutOffset ==
    /\ o_result = None
    /\ o_result' = Some(compute_layout_offset(o_args.canvas[1], o_args.canvas[2],
                                              o_args.frame, o_args.metrics))
    /\ UNCHANGED o_args
    /\ UNCHANGED <<merge_vars, analyzer_vars, store_vars,
                   sink_vars, render_vars, escape_vars, main_vars>>

OffsetNext == ComputeLayoutOffset

SpecOffset == OffsetInit /\ [][OffsetNext]_vars

(***************************************************************************)
(* Claims about compute_layout_offset (checked under SpecOffset)           *)
(***************************************************************************)

\* the coordinate of the anchor of the span [lo, lo + extent] for an alignment
AnchorOf(align, lo, extent) ==
    CASE align \in {"Left", "Top"}     -> lo
      [] align = "Center"              -> fadd(lo, fdiv(extent, float(2)))
      [] align \in {"Right", "Bottom"} -> fadd(lo, extent)

\* C15: the offset is (frame anchor x - text anchor x, frame anchor y - text
\* anchor y): the anchor of a span is its start, its middle or its end for
\* left/top, center and right/bottom; the text spans are (left, width) and
\* (top, height) of the metrics; the frame spans run from left to right and
\* from top to bottom, an unset left or top being 0 and an unset right or
\* bottom the canvas width or height. For a 1024 x 1024 canvas, a frame
\* without edges, center/center and metrics {10, 10, 100, 20} it is (452, 492).
C15_AlignmentOffset ==
    o_result # None =>
        LET f  == o_args.frame
            m  == o_args.metrics
            l  == IF f.left = None THEN float(0) ELSE f.left[1]
            t  == IF f.top = None THEN float(0) ELSE f.top[1]
            r  == IF f.right = None THEN o_args.canvas[1] ELSE f.right[1]
            b  == IF f.bottom = None THEN o_args.canvas[2] ELSE f.bottom[1]
        IN  /\ o_result[1][1] = fsub(AnchorOf(f.horizontal_align, l, fsub(r, l)),
                                     AnchorOf(f.horizontal_align, m.left, m.width))
            /\ o_result[1][2] = fsub(AnchorOf(f.vertical_align, t, fsub(b, t)),
                                     AnchorOf(f.vertical_align, m.top, m.height))
            /\ ( /\ o_args.canvas = <<float(1024), float(1024)>>
                 /\ f.left = None /\ f.top = None /\ f.right = None /\ f.bottom = None
                 /\ f.horizontal_align = "Center" /\ f.vertical_align = "Center"
                 /\ m = [left |-> float(10), top |-> float(10),
                         width |-> float(100), height |-> float(20)] )
               => o_result[1] = <<float(452), float(492)>>

\* C15 witness: the offset (452, 492) computed for the example.
C15_Witness ==
    /\ o_result = Some(<<float(452), float(492)>>)
    /\ o_args.canvas = <<float(1024), float(1024)>>
    /\ o_args.frame.left = None /\ o_args.frame.right = None
    /\ o_args.frame.top = None /\ o_args.frame.bottom = None
    /\ o_args.frame.horizontal_align = "Center"
    /\ o_args.frame.vertical_align = "Center"
    /\ o_args.metrics.width = float(100)


(***************************************************************************)
(* escape_str and the as_element methods that use it                       *)
(*                                                                         *)
(* A char is its code point, a str the sequence of its chars.              *)
(***************************************************************************)
MaxStr == 3    \* chars in a generated title, description or source text

\* A from_char that passes '&' through
from_char_no_amp(c) ==
    CASE c = 60 -> [seg |-> "Escape", esc |-> <<38, 108, 116, 59>>]
      [] c = 62 -> [seg |-> "Escape", esc |-> <<38, 103, 116, 59>>]
      [] c = 39 -> [seg |-> "Escape", esc |-> <<38, 97, 112, 111, 115, 59>>]
      [] c = 34 -> [seg |-> "Escape", esc |-> <<38, 113, 117, 111, 116, 59>>]
      [] c = 10 -> [seg |-> "Escape", esc |-> <<38, 35, 120, 65, 59>>]
      [] c = 13 -> [seg |-> "Escape", esc |-> <<38, 35, 120, 68, 59>>]
      [] OTHER  -> [seg |-> "Literal", ch |-> c]

\* A from_char that gives '>' the entity of '<'
from_char_gt_as_lt(c) ==
    CASE c = 60 -> [seg |-> "Escape", esc |-> <<38, 108, 116, 59>>]
      [] c = 62 -> [seg |-> "Escape", esc |-> <<38, 108, 116, 59>>]
      [] c = 39 -> [seg |-> "Escape", esc |-> <<38, 97, 112, 111, 115, 59>>]
      [] c = 34 -> [seg |-> "Escape", esc |-> <<38, 113, 117, 111, 116, 59>>]
      [] c = 38 -> [seg |-> "Escape", esc |-> <<38, 97, 109, 112, 59>>]
      [] c = 10 -> [seg |-> "Escape", esc |-> <<38, 35, 120, 65, 59>>]
      [] c = 13 -> [seg |-> "Escape", esc |-> <<38, 35, 120, 68, 59>>]
      [] OTHER  -> [seg |-> "Literal", ch |-> c]

\* Segment::from_char
\*   '<' => "&lt;"   '>' => "&gt;"   '\'' => "&apos;"   '"' => "&quot;"
\*   '&' => "&amp;"  '\n' => "&#xA;" '\r' => "&#xD;"    _ => Literal(c)
from_char(c) ==
    CASE c = 60 -> [seg |-> "Escape", esc |-> <<38, 108, 116, 59>>]
      [] c = 62 -> [seg |-> "Escape", esc |-> <<38, 103, 116, 59>>]
      [] c = 39 -> [seg |-> "Escape", esc |-> <<38, 97, 112, 111, 115, 59>>]
      [] c = 34 -> [seg |-> "Escape", esc |-> <<38, 113, 117, 111, 116, 59>>]
      [] c = 38 -> [seg |-> "Escape", esc |-> <<38, 97, 109, 112, 59>>]
      [] c = 10 -> [seg |-> "Escape", esc |-> <<38, 35, 120, 65, 59>>]
      [] c = 13 -> [seg |-> "Escape", esc |-> <<38, 35, 120, 68, 59>>]
      [] OTHER  -> [seg |-> "Literal", ch |-> c]

RECURSIVE escape_str(_)
\* for ch in s.chars() { match from_char(ch) { Literal(ch) => output.push(ch),
\*                                              Escape(esc) => output.push_str(esc) } }
escape_str(s) ==
    IF s = <<>> THEN <<>>
    ELSE LET seg == from_char(Head(s)) IN
         (IF seg.seg = "Literal" THEN <<seg.ch>> ELSE seg.esc) \o escape_str(Tail(s))

\* An as_element that refers to the path after the glyph's own
SvgGlyph_as_element_next_id(glyph) ==
    [name      |-> "use",
     href      |-> <<"#path", glyph.path_id + 1>>,
     transform |-> <<"translate", glyph.offset_x, glyph.offset_y>>]

\* SvgGlyph::as_element: <use href="#path{path_id}" transform="translate({x} {y})"/>
SvgGlyph_as_element(glyph) ==
    [name      |-> "use",
     href      |-> <<"#path", glyph.path_id>>,
     transform |-> <<"translate", glyph.offset_x, glyph.offset_y>>]

\* An SvgRun::as_element that embeds the source text as it is
SvgRun_as_element_raw(run) ==
    [name             |-> "g",
     transform        |-> <<"translate", run.offset_x, run.offset_y,
                            "rotate", run.rotate_angle,
                            "scale", fdiv(float(1), run.scalar)>>,
     fill             |-> unwrap_or(run.color, "black"),
     data_source_text |-> run.source_text,
     children         |->
        (IF run.copyable
         THEN <<[name |-> "text", x |-> run.offset_x, y |-> run.offset_y,
                 font_size |-> run.upm, fill |-> "transparent",
                 text |-> run.source_text]>>
         ELSE <<>>)
        \o [i \in DOMAIN run.glyphs |-> SvgGlyph_as_element(run.glyphs[i])]]

\* SvgRun::as_element
SvgRun_as_element(run) ==
    [name             |-> "g",
     transform        |-> <<"translate", run.offset_x, run.offset_y,
                            "rotate", run.rotate_angle,
                            "scale", fdiv(float(1), run.scalar)>>,
     fill             |-> unwrap_or(run.color, "black"),
     data_source_text |-> escape_str(run.source_text),
     children         |->
        (IF run.copyable
         THEN <<[name |-> "text", x |-> run.offset_x, y |-> run.offset_y,
                 font_size |-> run.upm, fill |-> "transparent",
                 text |-> escape_str(run.source_text)]>>
         ELSE <<>>)
        \o [i \in DOMAIN run.glyphs |-> SvgGlyph_as_element(run.glyphs[i])]]

\* SvgFrame::as_element: <title>, <desc>, then one group per run
SvgFrame_as_element(frame) ==
    [name     |-> "g",
     children |->
        (IF is_some(frame.frame_title)
         THEN <<[name |-> "title", text |-> escape_str(frame.frame_title[1])]>>
         ELSE <<>>)
        \o (IF is_some(frame.frame_desc)
            THEN <<[name |-> "desc", text |-> escape_str(frame.frame_desc[1])]>>
            ELSE <<>>)
        \o [i \in DOMAIN frame.runs |-> SvgRun_as_element(frame.runs[i])]]

\* ---- inputs
\* the seven chars from_char escapes, and 'a' and ';'
EscapeChars == {60, 62, 39, 34, 38, 10, 13, 97, 59}

\* text that already looks escaped: "&lt;" "&amp;" "&#xA;" "&amp;lt;" "a&gt;b"
EntityTexts ==
    {<<38, 108, 116, 59>>, <<38, 97, 109, 112, 59>>, <<38, 35, 120, 65, 59>>,
     <<38, 97, 109, 112, 59, 108, 116, 59>>, <<97, 38, 103, 116, 59, 98>>}

EscapeTexts ==
    UNION {[1..n -> EscapeChars] : n \in 0..MaxStr} \cup EntityTexts

\* a run as DrawGlyphRun pushes it, with the given source text
EscapeRun(s, copyable, glyphs) ==
    [offset_x |-> float(0), offset_y |-> float(0), rotate_angle |-> float(0),
     upm |-> float(designUnitsPerEm), scalar |-> float(4), color |-> None,
     source_text |-> s, glyphs |-> glyphs, copyable |-> copyable]

\* frames that carry the text s in one place, or in all of them
EscapeFrames(s) ==
    {[SvgFrame_new EXCEPT !.frame_title = Some(s)],
     [SvgFrame_new EXCEPT !.frame_desc = Some(s)],
     [SvgFrame_new EXCEPT !.runs = <<EscapeRun(s, FALSE, <<>>)>>],
     [SvgFrame_new EXCEPT !.copyable = TRUE,
                          !.runs = <<EscapeRun(s, TRUE,
                                       <<[path_id |-> 1, offset_x |-> float(0),
                                          offset_y |-> float(0)]>>)>>],
     [SvgFrame_new EXCEPT !.copyable = TRUE,
                          !.frame_title = Some(s), !.frame_desc = Some(<<>>),
                          !.runs = <<EscapeRun(<<>>, TRUE, <<>>),
                                     EscapeRun(s, TRUE, <<>>)>>]}

EscapeInit ==
    /\ \E s \in EscapeTexts : e_frame \in EscapeFrames(s)
    /\ e_element = None
    /\ m_self = DefaultStyle /\ m_other = DefaultStyle
    /\ m_result = DefaultStyle /\ m_pc = "idle"
    /\ text = <<>> /\ style_runs = <<>> /\ style_stack = <<>>
    /\ call_stack = <<>> /\ trace = <<>> /\ layout = <<>> /\ phase = "idle"
    /\ last_path_id = 0 /\ path_defs = <<>> /\ hist = <<>> /\ xml_defs = <<>>
    /\ sinks = <<>> /\ sink_log = <<>> /\ figure_open = FALSE
    /\ frames = <<>> /\ renderer = <<>> /\ draws = <<>> /\ render_phase = "idle"
    /\ svg = <<>>
    /\ o_args = <<>> /\ o_result = <<>>
    /\ pc = "idle" /\ opt_output = <<>> /\ n_frames = 0 /\ frame_i = 0
    /\ out_bytes = <<>> /\ exit_status = "idle"

\* frame.as_element(), as into_xml calls it for each frame
AsElement ==
    /\ e_element = None
    /\ e_element' = Some(SvgFrame_as_element(e_frame))
    /\ UNCHANGED e_frame
    /\ UNCHANGED <<merge_vars, analyzer_vars, store_vars,
                   sink_vars, render_vars, offset_vars, main_vars>>

EscapeNext == AsElement

SpecEscape == EscapeInit /\ [][EscapeNext]_vars

(***************************************************************************)
(* Claims about escape_str (checked under SpecEscape)                      *)
(***************************************************************************)

\* the entity the claim names for each escaped char
EntityOf(c) ==
    CASE c = 60 -> <<38, 108, 116, 59>>                 \* &lt;
      [] c = 62 -> <<38, 103, 116, 59>>                 \* &gt;
      [] c = 39 -> <<38, 97, 112, 111, 115, 59>>        \* &apos;
      [] c = 34 -> <<38, 113, 117, 111, 116, 59>>       \* &quot;
      [] c = 38 -> <<38, 97, 109, 112, 59>>             \* &amp;
      [] c = 10 -> <<38, 35, 120, 65, 59>>              \* &#xA;
      [] c = 13 -> <<38, 35, 120, 68, 59>>              \* &#xD;

Escaped == {60, 62, 39, 34, 38, 10, 13}

\* the entity that starts at position i of e, if any
EntityAt(e, i) ==
    {c \in Escaped : /\ i + Len(EntityOf(c)) - 1 <= Len(e)
                     /\ SubSeq(e, i, i + Len(EntityOf(c)) - 1) = EntityOf(c)}

RECURSIVE Image(_)
\* s with each escaped char replaced by its entity and the rest copied in order
Image(s) ==
    IF s = <<>> THEN <<>>
    ELSE (IF Head(s) \in Escaped THEN EntityOf(Head(s)) ELSE <<Head(s)>>)
         \o Image(Tail(s))

RECURSIVE Unescape(_)
\* reading e from the left, an entity back to its char and any other char as itself
Unescape(e) ==
    IF e = <<>> THEN <<>>
    ELSE IF EntityAt(e, 1) # {}
    THEN LET c == CHOOSE c \in EntityAt(e, 1) : TRUE
         IN  <<c>> \o Unescape(SubSeq(e, Len(EntityOf(c)) + 1, Len(e)))
    ELSE <<Head(e)>> \o Unescape(Tail(e))

\* e is what the claim says escape_str makes of s
EscapedAs(e, s) ==
    /\ e = Image(s)
    /\ Unescape(e) = s
    /\ \A i \in 1..Len(e) :
          /\ e[i] \notin {60, 62, 39, 34, 10, 13}
          /\ e[i] = 38 => EntityAt(e, i) # {}

\* the elements of the given name among the children of el
ChildrenNamed(el, name) ==
    SelectSeq(el.children, LAMBDA ch : ch.name = name)

\* C17: every frame title, frame description and run source text is embedded
\* as its escape_str image: each of < > ' " & LF CR replaced by its entity and
\* every other char copied in order; the image holds none of < > ' " LF CR,
\* every & in it starts one of the seven entities, and the text can be
\* recovered from the image.
C17_EscapeStr ==
    e_element # None =>
        LET el     == e_element[1]
            titles == ChildrenNamed(el, "title")
            descs  == ChildrenNamed(el, "desc")
            groups == ChildrenNamed(el, "g")
        IN  /\ Len(titles) = (IF is_some(e_frame.frame_title) THEN 1 ELSE 0)
            /\ Len(descs) = (IF is_some(e_frame.frame_desc) THEN 1 ELSE 0)
            /\ Len(groups) = Len(e_frame.runs)
            /\ \A i \in DOMAIN titles :
                  /\ EscapedAs(titles[i].text, e_frame.frame_title[1])
            /\ \A i \in DOMAIN descs :
                  /\ EscapedAs(descs[i].text, e_frame.frame_desc[1])
            /\ \A i \in DOMAIN groups :
                  /\ EscapedAs(groups[i].data_source_text, e_frame.runs[i].source_text)
                  /\ Len(ChildrenNamed(groups[i], "text"))
                        = (IF e_frame.runs[i].copyable THEN 1 ELSE 0)
                  /\ \A t \in DOMAIN ChildrenNamed(groups[i], "text") :
                        ChildrenNamed(groups[i], "text")[t].text
                            = groups[i].data_source_text

\* a frame whose title and second run read "&lt;" has been serialised: the
\* title node and the run's attribute and text node read "&amp;lt;"
C17_Witness ==
    /\ e_element # None
    /\ e_frame.frame_title = Some(<<38, 108, 116, 59>>)
    /\ Len(e_frame.runs) = 2
    /\ e_frame.runs[2].source_text = <<38, 108, 116, 59>>
    /\ ChildrenNamed(e_element[1], "title")[1].text
          = <<38, 97, 109, 112, 59, 108, 116, 59>>
    /\ ChildrenNamed(e_element[1], "g")[2].data_source_text
          = <<38, 97, 109, 112, 59, 108, 116, 59>>
    /\ ChildrenNamed(ChildrenNamed(e_element[1], "g")[2], "text")[1].text
          = <<38, 97, 109, 112, 59, 108, 116, 59>>

(***************************************************************************)
(* SvgDocumentRenderer::into_xml, and the renderer's specification         *)
(***************************************************************************)
\* SvgDocumentRenderer::new(document.width, document.height)
canvas_width == float(1000)

canvas_height == float(500)

\* for (path_d, id) in &store.path_defs { defs.append(<path id="path{id}" d="{path_d}">) }
into_xml_defs(defs) ==
    [i \in 1..Len(defs) |-> [name |-> "path", id |-> <<"path", defs[i].id>>,
                             d |-> defs[i].key]]

\* SvgDocumentRenderer::into_xml: <svg viewBox width height>, the <defs> of the
\* shared store, then one group per frame in creation order
into_xml(store_path_defs, fs) ==
    [name     |-> "svg",
     viewBox  |-> <<float(0), float(0), canvas_width, canvas_height>>,
     width    |-> canvas_width,
     height   |-> canvas_height,
     children |-> <<[name |-> "defs", children |-> into_xml_defs(store_path_defs)]>>
                  \o [f \in DOMAIN fs |-> SvgFrame_as_element(fs[f])]]

\* let svg = document_renderer.into_xml(), which main reaches once every
\* frame's Draw has returned Ok
RenderIntoXml ==
    /\ render_phase = "drawing"
    /\ svg' = Some(into_xml(path_defs, frames))
    /\ xml_defs' = [i \in 1..Len(path_defs) |->
                        [id |-> <<"path", path_defs[i].id>>, d |-> path_defs[i].key]]
    /\ render_phase' = "assembled"
    /\ UNCHANGED <<frames, renderer, draws>>
    /\ UNCHANGED <<last_path_id, path_defs, hist>>
    /\ UNCHANGED <<merge_vars, analyzer_vars, sink_vars, offset_vars, escape_vars, main_vars>>

RenderNext ==
    \/ \E o \in FrameOffsets : CreateFrameRenderer(o[1], o[2])
    \/ \E call \in DrawCalls : \E fail_at \in 0..3 : DrawGlyphRun(call, fail_at)
    \/ RenderIntoXml

SpecRender == RenderInit /\ [][RenderNext]_vars

(***************************************************************************)
(* Claims about the assembled document (checked under SpecRender)          *)
(***************************************************************************)

\* every glyph recorded in a run of a frame, with its frame and run
PlacedGlyphs ==
    UNION {UNION {{[frame |-> f, run |-> r, path_id |-> frames[f].runs[r].glyphs[g].path_id] :
                      g \in DOMAIN frames[f].runs[r].glyphs} :
                  r \in DOMAIN frames[f].runs} :
           f \in DOMAIN frames}

\* the path ids the <use> elements of the assembled image refer to
UseRefs ==
    LET groups == ChildrenNamed(svg[1], "g")
    IN  UNION {UNION {{ChildrenNamed(ChildrenNamed(groups[f], "g")[r], "use")[u].href :
                          u \in DOMAIN ChildrenNamed(ChildrenNamed(groups[f], "g")[r], "use")} :
                      r \in DOMAIN ChildrenNamed(groups[f], "g")} :
               f \in DOMAIN groups}

\* the ids of the <path> elements the assembled image defines
PathIds ==
    LET defs == ChildrenNamed(svg[1], "defs")[1].children
    IN  {defs[i].id : i \in DOMAIN defs}

\* C22: after any sequence of glyph runs drawn over any number of frames,
\* every glyph recorded in a run of a frame has a path id in 1..n, n the
\* size of the catalog, and the catalog has an entry with that id; so in the
\* assembled image every <use href="#path{id}"> has its <path id="path{id}">
\* among the definitions, and the <use> elements refer to exactly the paths
\* of the recorded glyphs.
C22_ReferentialIntegrity ==
    /\ \A g \in PlacedGlyphs :
          /\ g.path_id \in 1..Len(path_defs)
          /\ \E k \in DOMAIN path_defs : path_defs[k].id = g.path_id
    /\ svg # None =>
          /\ \A ref \in UseRefs :
                /\ ref[1] = "#path"
                /\ <<"path", ref[2]>> \in PathIds
          /\ UseRefs = {<<"#path", g.path_id>> : g \in PlacedGlyphs}
          /\ Cardinality(PathIds) = Len(path_defs)

\* the image has been assembled from two frames with a run each; both runs
\* place glyphs, a path is referred to from both frames, and the catalog
\* holds more than one path
C22_Witness ==
    /\ svg # None
    /\ Len(frames) = 2
    /\ \E a \in PlacedGlyphs : \E b \in PlacedGlyphs :
          a.frame = 1 /\ b.frame = 2 /\ a.path_id = b.path_id
    /\ Cardinality(UseRefs) >= 2
    /\ Cardinality(PathIds) >= 2

(***************************************************************************)
(* main                                                                    *)
(*                                                                         *)
(* One action per statement of main that can fail, with its outcome as the *)
(* environment decides it. A statement ending in ? returns Err from main,  *)
(* which ends the process with a failure status; unwrap() on an Err        *)
(* panics, which does so too. pc stays at the statement that failed.       *)
(***************************************************************************)
MaxDocFrames == 2    \* document.frames.len()

\* what a write on the output stream may do: write all, fail before the
\* first byte, or fail after some bytes have been written
WriteOutcomes == {"ok", "err", "err_partial"}

\* Opt::from_args(); nothing else in use
MainInit ==
    /\ pc = "open_input"
    /\ opt_output \in {None, Some("out.svg")}
    /\ n_frames = 0 /\ frame_i = 0
    /\ out_bytes = <<>>
    /\ exit_status = "running"
    /\ m_self = DefaultStyle /\ m_other = DefaultStyle
    /\ m_result = DefaultStyle /\ m_pc = "idle"
    /\ text = <<>> /\ style_runs = <<>> /\ style_stack = <<>>
    /\ call_stack = <<>> /\ trace = <<>> /\ layout = <<>> /\ phase = "idle"
    /\ last_path_id = 0 /\ path_defs = <<>> /\ hist = <<>> /\ xml_defs = <<>>
    /\ sinks = <<>> /\ sink_log = <<>> /\ figure_open = FALSE
    /\ frames = <<>> /\ renderer = <<>> /\ draws = <<>> /\ render_phase = "idle"
    /\ svg = <<>>
    /\ o_args = <<>> /\ o_result = <<>> /\ e_frame = <<>> /\ e_element = <<>>

\* the statement after the setup or after a frame: the loop body or the output
after_frames(i, n) == IF i < n THEN "create_text_layout" ELSE "create_output"

\* let file = File::open(opt.input.as_path())?
OpenInput(ok) ==
    /\ exit_status = "running" /\ pc = "open_input"
    /\ IF ok THEN pc' = "decode" /\ UNCHANGED exit_status
             ELSE exit_status' = "err" /\ UNCHANGED pc
    /\ UNCHANGED <<opt_output, n_frames, frame_i, out_bytes>>
    /\ UNCHANGED <<merge_vars, analyzer_vars, store_vars,
                   sink_vars, render_vars, offset_vars, escape_vars>>

\* let document: Document = serde_json::from_reader(reader)?
Decode(ok, n) ==
    /\ exit_status = "running" /\ pc = "decode"
    /\ IF ok THEN pc' = "get_factory" /\ n_frames' = n /\ UNCHANGED exit_status
             ELSE exit_status' = "err" /\ UNCHANGED <<pc, n_frames>>
    /\ UNCHANGED <<opt_output, frame_i, out_bytes>>
    /\ UNCHANGED <<merge_vars, analyzer_vars, store_vars,
                   sink_vars, render_vars, offset_vars, escape_vars>>

\* let factory = get_factory()?
GetFactory(ok) ==
    /\ exit_status = "running" /\ pc = "get_factory"
    /\ IF ok THEN pc' = "load_font_collection" /\ UNCHANGED exit_status
             ELSE exit_status' = "err" /\ UNCHANGED pc
    /\ UNCHANGED <<opt_output, n_frames, frame_i, out_bytes>>
    /\ UNCHANGED <<merge_vars, analyzer_vars, store_vars,
                   sink_vars, render_vars, offset_vars, escape_vars>>

\* let font_collection = load_font_collection(factory.cast()?, &document)?
LoadFontCollection(ok) ==
    /\ exit_status = "running" /\ pc = "load_font_collection"
    /\ IF ok THEN pc' = "create_text_format" /\ UNCHANGED exit_status
             ELSE exit_status' = "err" /\ UNCHANGED pc
    /\ UNCHANGED <<opt_output, n_frames, frame_i, out_bytes>>
    /\ UNCHANGED <<merge_vars, analyzer_vars, store_vars,
                   sink_vars, render_vars, offset_vars, escape_vars>>

\* let format = unsafe { factory.CreateTextFormat(..)? }; SvgDocumentRenderer::new
CreateTextFormat(ok) ==
    /\ exit_status = "running" /\ pc = "create_text_format"
    /\ IF ok THEN pc' = after_frames(0, n_frames) /\ UNCHANGED exit_status
             ELSE exit_status' = "err" /\ UNCHANGED pc
    /\ UNCHANGED <<opt_output, n_frames, frame_i, out_bytes>>
    /\ UNCHANGED <<merge_vars, analyzer_vars, store_vars,
                   sink_vars, render_vars, offset_vars, escape_vars>>

\* analyzer.analyze(&frame.contents); let text_layout = analyzer.create_text_layout(..)?
FrameCreateTextLayout(ok) ==
    /\ exit_status = "running" /\ pc = "create_text_layout"
    /\ IF ok THEN pc' = "get_metrics" /\ UNCHANGED exit_status
             ELSE exit_status' = "err" /\ UNCHANGED pc
    /\ UNCHANGED <<opt_output, n_frames, frame_i, out_bytes>>
    /\ UNCHANGED <<merge_vars, analyzer_vars, store_vars,
                   sink_vars, render_vars, offset_vars, escape_vars>>

\* unsafe { text_layout.GetMetrics(&mut metrics)? }; compute_layout_offset
FrameGetMetrics(ok) ==
    /\ exit_status = "running" /\ pc = "get_metrics"
    /\ IF ok THEN pc' = "draw" /\ UNCHANGED exit_status
             ELSE exit_status' = "err" /\ UNCHANGED pc
    /\ UNCHANGED <<opt_output, n_frames, frame_i, out_bytes>>
    /\ UNCHANGED <<merge_vars, analyzer_vars, store_vars,
                   sink_vars, render_vars, offset_vars, escape_vars>>

\* create_frame_renderer, set_title, set_desc; unsafe { text_layout.Draw(None, &fr1, 0.0, 0.0)? }
FrameDraw(ok) ==
    /\ exit_status = "running" /\ pc = "draw"
    /\ IF ok THEN /\ frame_i' = frame_i + 1
                  /\ pc' = after_frames(frame_i + 1, n_frames)
                  /\ UNCHANGED exit_status
             ELSE exit_status' = "err" /\ UNCHANGED <<pc, frame_i>>
    /\ UNCHANGED <<opt_output, n_frames, out_bytes>>
    /\ UNCHANGED <<merge_vars, analyzer_vars, store_vars,
                   sink_vars, render_vars, offset_vars, escape_vars>>

\* let mut out_stream = match opt.output {
\*     Some(output) => Box::new(std::fs::File::create(output.as_path()).unwrap()),
\*     None => Box::new(std::io::stdout()) }
CreateOutput(ok) ==
    /\ exit_status = "running" /\ pc = "create_output"
    /\ ~ok => opt_output # None
    /\ IF ok THEN pc' = "write_header" /\ UNCHANGED exit_status
             ELSE exit_status' = "panic" /\ UNCHANGED pc
    /\ UNCHANGED <<opt_output, n_frames, frame_i, out_bytes>>
    /\ UNCHANGED <<merge_vars, analyzer_vars, store_vars,
                   sink_vars, render_vars, offset_vars, escape_vars>>

\* Write::write_all on the unbuffered destination: what the destination holds afterwards
write_all(bytes, chunk, outcome) ==
    CASE outcome = "ok"          -> Append(bytes, chunk)
      [] outcome = "err"         -> bytes
      [] outcome = "err_partial" -> Append(bytes, <<"part of", chunk>>)

\* write!(out_stream, "<?xml version=\"1.0\" encoding=\"UTF-8\" standalone=\"no\"?>\n")?
WriteHeader(outcome) ==
    /\ exit_status = "running" /\ pc = "write_header"
    /\ out_bytes' = write_all(out_bytes, "xml declaration", outcome)
    /\ IF outcome = "ok" THEN pc' = "write_svg" /\ UNCHANGED exit_status
                         ELSE exit_status' = "err" /\ UNCHANGED pc
    /\ UNCHANGED <<opt_output, n_frames, frame_i>>
    /\ UNCHANGED <<merge_vars, analyzer_vars, store_vars,
                   sink_vars, render_vars, offset_vars, escape_vars>>

\* let svg = document_renderer.into_xml(); svg::write(out_stream, &svg)?; Ok(())
WriteSvg(outcome) ==
    /\ exit_status = "running" /\ pc = "write_svg"
    /\ out_bytes' = write_all(out_bytes, "svg document", outcome)
    /\ IF outcome = "ok" THEN pc' = "end" /\ exit_status' = "ok"
                         ELSE exit_status' = "err" /\ UNCHANGED pc
    /\ UNCHANGED <<opt_output, n_frames, frame_i>>
    /\ UNCHANGED <<merge_vars, analyzer_vars, store_vars,
                   sink_vars, render_vars, offset_vars, escape_vars>>

MainNext ==
    \/ \E ok \in BOOLEAN : OpenInput(ok)
    \/ \E ok \in BOOLEAN : \E n \in 0..MaxDocFrames : Decode(ok, n)
    \/ \E ok \in BOOLEAN : GetFactory(ok)
    \/ \E ok \in BOOLEAN : LoadFontCollection(ok)
    \/ \E ok \in BOOLEAN : CreateTextFormat(ok)
    \/ \E ok \in BOOLEAN : FrameCreateTextLayout(ok)
    \/ \E ok \in BOOLEAN : FrameGetMetrics(ok)
    \/ \E ok \in BOOLEAN : FrameDraw(ok)
    \/ \E ok \in BOOLEAN : CreateOutput(ok)
    \/ \E outcome \in WriteOutcomes : WriteHeader(outcome)
    \/ \E outcome \in WriteOutcomes : WriteSvg(outcome)

SpecMain == MainInit /\ [][MainNext]_vars

(***************************************************************************)
(* Claims about main (checked under SpecMain)                              *)
(***************************************************************************)

\* C16: a run of main that ends in failure (an error opening or decoding the
\* input, a layout-engine error in any frame, an error creating or writing
\* the output) has written nothing to the output destination; output bytes
\* exist only in runs that complete successfully.
C16_NoPartialOutput ==
    /\ exit_status \in {"err", "panic"} => out_bytes = <<>>
    /\ (exit_status # "running" /\ out_bytes # <<>>) => exit_status = "ok"

====
